---------------------------- MODULE Spec2Model ----------------------------
(***************************************************************************)
(* Hyperliquid ("exact" scheme) facilitator of the x402 package:           *)
(*   settle  - schemes/exact/hyperliquid/facilitator/settle.ts             *)
(*             (src/unnamed/part_001)                                      *)
(*   verify  - schemes/exact/hyperliquid/facilitator/verify.ts             *)
(*   shared  - shared/hyperliquid/index.ts                                 *)
(*                                                                         *)
(* JavaScript strings are modelled as sequences of one-character strings,  *)
(* so that toLowerCase, trim, split, includes and the regular expressions  *)
(* of the code are computed and not assumed.  JavaScript values of unknown *)
(* type (fields of the open "action" map, of a REST response) are records  *)
(* [t, s, n]: t is the typeof tag, s the characters of a string, n the     *)
(* value of a finite integer number.                                       *)
(***************************************************************************)
EXTENDS Integers, Sequences, FiniteSets, TLC

VARIABLES
    pc,                  \* position of the call in progress
    paymentPayload,      \* argument of settle / verify
    paymentRequirements, \* argument of settle / verify
    payer,               \* settle: const payer
    exchangeResponse,    \* settle: const exchangeResponse
    exchangeTxHash,      \* settle: const exchangeTxHash
    userDetails,         \* settle: what infoClient.userDetails answered
    matchedHash,         \* settle: const matchedHash
    txHash,              \* settle: const txHash
    attempt,             \* confirmTransaction: let attempt
    requests,            \* the external requests of the call and their outcomes, in order
    result,              \* the SettleResponse / VerifyResponse returned
    now,                 \* verify: Date.now()
    decimals,            \* verify: const decimals
    cache,               \* shared: hyperliquidTokenInfoCache
    previous,            \* the caller of verify: what the preceding call returned
    other                \* the locals of a second settle call, suspended at an await

vars == <<pc, paymentPayload, paymentRequirements, payer, exchangeResponse, exchangeTxHash,
          userDetails, matchedHash, txHash, attempt, requests, result,
          now, decimals, cache, previous, other>>

settleVars == <<payer, exchangeResponse, exchangeTxHash, userDetails, matchedHash, txHash,
                attempt>>

verifyVars == <<now, decimals, cache, previous>>

-----------------------------------------------------------------------------
(* Bounds of the model *)

\* longest list of transactions a userDetails response carries
MaxHistory == 2

\* longest generated payload amount string
MaxAmountLen == 3

\* number of clock steps of a verify behaviour
MaxTicks == 2

-----------------------------------------------------------------------------
(* JavaScript strings *)

Range(f) == {f[i] : i \in DOMAIN f}

Rep(c, k) == [i \in 1..k |-> c]

LowerLetters == <<"a","b","c","d","e","f","g","h","i","j","k","l","m","n","o","p","q","r","s","t","u","v","w","x","y","z">>

UpperLetters == <<"A","B","C","D","E","F","G","H","I","J","K","L","M","N","O","P","Q","R","S","T","U","V","W","X","Y","Z">>

Digits == <<"0","1","2","3","4","5","6","7","8","9">>

DigitSet == Range(Digits)

IsDigit(c) == c \in DigitSet

DigitVal(c) == (CHOOSE i \in 1..10 : Digits[i] = c) - 1

AllDigits(s) == \A i \in 1..Len(s) : IsDigit(s[i])

IsHexDigit(c) ==
    \/ IsDigit(c)
    \/ c \in {"a","b","c","d","e","f","A","B","C","D","E","F"}

UpperSet == Range(UpperLetters)

LowerOf == [c \in UpperSet |-> LowerLetters[CHOOSE i \in 1..26 : UpperLetters[i] = c]]

LowerChar(c) == IF c \in UpperSet THEN LowerOf[c] ELSE c

\* String.prototype.toLowerCase
ToLowerCase(s) == [i \in 1..Len(s) |-> LowerChar(s[i])]

\* String.prototype.includes
Includes(s, sub) ==
    \E i \in 0..(Len(s) - Len(sub)) :
        \A j \in 1..Len(sub) : s[i + j] = sub[j]

\* String.prototype.startsWith
StartsWith(s, pre) ==
    /\ Len(s) >= Len(pre)
    /\ \A j \in 1..Len(pre) : s[j] = pre[j]

RECURSIVE TrimStart(_)
TrimStart(s) ==
    IF s # <<>> /\ Head(s) = " " THEN TrimStart(Tail(s)) ELSE s

RECURSIVE TrimEnd(_)
TrimEnd(s) ==
    IF s # <<>> /\ s[Len(s)] = " " THEN TrimEnd(SubSeq(s, 1, Len(s) - 1)) ELSE s

\* String.prototype.trim
Trim(s) == TrimEnd(TrimStart(s))

\* the positions of the separator character in s
SepPositions(s, sep) == {i \in 1..Len(s) : s[i] = sep}

\* String.prototype.split on a one-character separator
RECURSIVE Split(_, _)
Split(s, sep) ==
    IF SepPositions(s, sep) = {}
    THEN <<s>>
    ELSE LET i == CHOOSE k \in SepPositions(s, sep) :
                      \A m \in SepPositions(s, sep) : k <= m
         IN  <<SubSeq(s, 1, i - 1)>> \o Split(SubSeq(s, i + 1, Len(s)), sep)

\* String.prototype.padEnd with "0"
PadEndZero(s, k) == IF Len(s) >= k THEN s ELSE s \o Rep("0", k - Len(s))

-----------------------------------------------------------------------------
(* JavaScript values *)

Undefined == [t |-> "undefined", s |-> <<>>, n |-> 0]

Null == [t |-> "null", s |-> <<>>, n |-> 0]

Str(s) == [t |-> "string", s |-> s, n |-> 0]

Num(n) == [t |-> "number", s |-> <<>>, n |-> n]

\* NaN: typeof "number", not finite, falsy
NotANumber == [t |-> "nonfinite", s |-> <<>>, n |-> 0]

\* typeof
TypeOf(v) ==
    CASE v.t = "nonfinite" -> "number"
      [] v.t = "null" -> "object"
      [] OTHER -> v.t

\* typeof v === "number" && Number.isFinite(v)
IsFiniteNumber(v) == v.t = "number"

\* v == null  (null or undefined)
IsNullish(v) == v.t \in {"undefined", "null"}

\* the truthiness of a value
Truthy(v) ==
    CASE v.t \in {"undefined", "null", "nonfinite"} -> FALSE
      [] v.t = "string" -> v.s # <<>>
      [] v.t = "number" -> v.n # 0
      [] OTHER -> TRUE

\* a ?? b
Coalesce(a, b) == IF IsNullish(a) THEN b ELSE a

-----------------------------------------------------------------------------
(* JavaScript numbers and BigInts.                                         *)
(* A number is [nan, neg, int, frac]: int the digits of the integer part   *)
(* without leading zeros, frac the digits of the fraction without trailing *)
(* zeros; zero is [int |-> <<>>, frac |-> <<>>] and never negative.  The   *)
(* representation is exact: the strings of the model are short enough for  *)
(* a double to tell them apart.  A BigInt is a number with frac = <<>>.    *)

RECURSIVE StripLeadingZeros(_)
StripLeadingZeros(ds) ==
    IF ds # <<>> /\ Head(ds) = "0" THEN StripLeadingZeros(Tail(ds)) ELSE ds

RECURSIVE StripTrailingZeros(_)
StripTrailingZeros(ds) ==
    IF ds # <<>> /\ ds[Len(ds)] = "0"
    THEN StripTrailingZeros(SubSeq(ds, 1, Len(ds) - 1))
    ELSE ds

NaNValue == [nan |-> TRUE, neg |-> FALSE, int |-> <<>>, frac |-> <<>>]

MkNumber(neg, int, frac) ==
    LET i == StripLeadingZeros(int)
        f == StripTrailingZeros(frac)
    IN  [nan |-> FALSE, neg |-> neg /\ (i # <<>> \/ f # <<>>), int |-> i, frac |-> f]

RECURSIVE NatDigits(_)
NatDigits(k) ==
    IF k = 0 THEN <<>> ELSE NatDigits(k \div 10) \o <<Digits[(k % 10) + 1]>>

\* the value of a finite integer number
NumberOfInt(k) == MkNumber(k < 0, NatDigits(IF k < 0 THEN -k ELSE k), <<>>)

\* the unsigned decimal literals of Number(): "12", "12.", "12.5", ".5"
UnsignedLiteral(s) ==
    LET parts == Split(s, ".")
    IN  CASE Len(parts) = 1 ->
               IF s # <<>> /\ AllDigits(s) THEN MkNumber(FALSE, s, <<>>) ELSE NaNValue
          [] Len(parts) = 2 ->
               IF /\ AllDigits(parts[1]) /\ AllDigits(parts[2])
                  /\ (parts[1] # <<>> \/ parts[2] # <<>>)
               THEN MkNumber(FALSE, parts[1], parts[2])
               ELSE NaNValue
          [] OTHER -> NaNValue

Negate(x) == IF x.nan THEN x ELSE MkNumber(~x.neg, x.int, x.frac)

\* Number(s) for a string s of digits, ".", "+", "-" and blanks
NumberOfString(s) ==
    LET t == Trim(s)
    IN  CASE t = <<>> -> MkNumber(FALSE, <<>>, <<>>)
          [] t # <<>> /\ Head(t) = "-" -> Negate(UnsignedLiteral(Tail(t)))
          [] t # <<>> /\ Head(t) = "+" -> UnsignedLiteral(Tail(t))
          [] OTHER -> UnsignedLiteral(t)

\* BigInt(s) for a string s of digits, "+", "-" and blanks; "throws" is a SyntaxError
BigIntThrows(s) ==
    LET t == Trim(s)
        u == IF t # <<>> /\ Head(t) \in {"+", "-"} THEN Tail(t) ELSE t
    IN  ~AllDigits(u) \/ (u = <<>> /\ t # <<>>)

BigIntOfString(s) ==
    LET t == Trim(s)
    IN  IF t # <<>> /\ Head(t) = "-"
        THEN MkNumber(TRUE, Tail(t), <<>>)
        ELSE IF t # <<>> /\ Head(t) = "+"
             THEN MkNumber(FALSE, Tail(t), <<>>)
             ELSE MkNumber(FALSE, t, <<>>)

\* lexicographic comparison of two digit strings of the same length
RECURSIVE DigitsLess(_, _)
DigitsLess(a, b) ==
    IF a = <<>> \/ b = <<>> THEN FALSE
    ELSE IF Head(a) # Head(b) THEN DigitVal(Head(a)) < DigitVal(Head(b))
         ELSE DigitsLess(Tail(a), Tail(b))

\* |x| < |y|
MagnitudeLess(x, y) ==
    IF Len(x.int) # Len(y.int) THEN Len(x.int) < Len(y.int)
    ELSE IF x.int # y.int THEN DigitsLess(x.int, y.int)
         ELSE LET w == IF Len(x.frac) > Len(y.frac) THEN Len(x.frac) ELSE Len(y.frac)
              IN  DigitsLess(PadEndZero(x.frac, w), PadEndZero(y.frac, w))

\* x < y on numbers; false when either is NaN
NumberLess(x, y) ==
    /\ ~x.nan /\ ~y.nan
    /\ CASE x.neg /\ ~y.neg -> TRUE
         [] ~x.neg /\ y.neg -> FALSE
         [] x.neg /\ y.neg -> MagnitudeLess(y, x)
         [] OTHER -> MagnitudeLess(x, y)

\* x >= y
NumberGE(x, y) == ~x.nan /\ ~y.nan /\ ~NumberLess(x, y)

\* x === y on numbers
NumberEq(x, y) == ~x.nan /\ ~y.nan /\ x = y

\* school addition of two digit strings, least significant digit last
RECURSIVE AddDigits(_, _, _)
AddDigits(a, b, carry) ==
    IF a = <<>> /\ b = <<>>
    THEN IF carry = 0 THEN <<>> ELSE <<Digits[carry + 1]>>
    ELSE LET da == IF a = <<>> THEN 0 ELSE DigitVal(a[Len(a)])
             db == IF b = <<>> THEN 0 ELSE DigitVal(b[Len(b)])
             ra == IF a = <<>> THEN <<>> ELSE SubSeq(a, 1, Len(a) - 1)
             rb == IF b = <<>> THEN <<>> ELSE SubSeq(b, 1, Len(b) - 1)
             sum == da + db + carry
         IN  AddDigits(ra, rb, sum \div 10) \o <<Digits[(sum % 10) + 1]>>

\* a + b on non-negative BigInts
BigAdd(x, y) == MkNumber(FALSE, AddDigits(x.int, y.int, 0), <<>>)

\* a * 10n ** BigInt(k) on a non-negative BigInt, k >= 0
BigShift(x, k) == MkNumber(FALSE, x.int \o Rep("0", k), <<>>)

-----------------------------------------------------------------------------
(* Program constants *)

SCHEME == "exact"

SupportedHLNetworks == <<"hyperliquid-testnet", "hyperliquid">>

CONFIRMATION_RETRIES == 3

NotFoundSignal == <<"n","o","t"," ","f","o","u","n","d">>

-----------------------------------------------------------------------------
(* settle: helpers of src/unnamed/part_001                                 *)
(*                                                                         *)
(* A PaymentPayload is [scheme, network, actionKind, action, nonce, user]. *)
(* actionKind tells what payload.action is: "record" (an object),          *)
(* "null" (the key is there, the value is null or undefined), "missing"    *)
(* (no such key) or "scalar" (a value that is not an object); action holds *)
(* the fields of the record.  PaymentRequirements are [scheme, network,    *)
(* payTo, asset, maxAmountRequired, maxTimeoutSeconds, decimals], decimals *)
(* being extra.decimals.                                                   *)

\* Number.prototype.toString of a finite integer
NumberToString(k) ==
    IF k = 0 THEN <<"0">>
    ELSE IF k < 0 THEN <<"-">> \o NatDigits(-k) ELSE NatDigits(k)

\* /^0x[0-9a-fA-F]{64}$/.test(value)
isHexHash(value) ==
    /\ Len(value) = 66
    /\ value[1] = "0"
    /\ value[2] = "x"
    /\ \A i \in 3..66 : IsHexDigit(value[i])

stringify(value) ==
    CASE value.t = "string" -> value
      [] value.t = "number" -> Str(NumberToString(value.n))
      [] OTHER -> Undefined

toLower(value) ==
    LET normalized == stringify(value)
    IN  IF normalized.t = "string" THEN Str(ToLowerCase(normalized.s)) ELSE Undefined

equalsIgnoreCase(a, b) ==
    LET left == toLower(a)
        right == toLower(b)
    IN  ~IsNullish(left) /\ ~IsNullish(right) /\ left = right

valuesMatch(candidate, expected) ==
    IF IsNullish(expected) THEN TRUE ELSE equalsIgnoreCase(candidate, expected)

toNumber(value) == IF IsFiniteNumber(value) THEN value ELSE Undefined

\* the number a value is read as; NaNValue stands for the result undefined
coerceAmountToNumber(value) ==
    CASE IsFiniteNumber(value) -> NumberOfInt(value.n)
      [] value.t = "string" -> NumberOfString(value.s)
      [] OTHER -> NaNValue

\* tx.action ?? tx: a transaction without an action field is its own action
getTxAction(tx) ==
    IF tx.nested THEN tx.action ELSE [tx.action EXCEPT !.time = tx.time]

getTxTimestamp(tx) ==
    LET actionTime == IF tx.nested THEN toNumber(tx.action.time) ELSE Undefined
    IN  IF ~IsNullish(actionTime) THEN actionTime.n
        ELSE Coalesce(toNumber(tx.time), Num(0)).n

\* extractPayer throws a TypeError on action.user when action is null
settleExtractPayerThrows(pp) ==
    /\ pp.actionKind = "null"
    /\ TypeOf(pp.user) # "string"

settleExtractPayer(pp) ==
    IF pp.actionKind = "missing" THEN Undefined
    ELSE IF TypeOf(pp.user) = "string" THEN pp.user
         ELSE IF pp.actionKind = "record" /\ TypeOf(pp.action.user) = "string"
              THEN pp.action.user
              ELSE Undefined

extractFallbackTransaction(req) == Str(req.payTo)

Threw == [kind |-> "throw"]

NoResult == [kind |-> "none"]

\* failureResponse without the fallback of line 290: transaction is the hash given
failureResponse_NoFallback(reason, req, pp, hash, who) ==
    IF IsNullish(who) /\ settleExtractPayerThrows(pp)
    THEN Threw
    ELSE [kind |-> "SettleResponse",
          success |-> FALSE,
          errorReason |-> reason,
          transaction |-> hash,
          network |-> req.network,
          payer |-> Coalesce(who, settleExtractPayer(pp))]

failureResponse(reason, req, pp, hash, who) ==
    IF IsNullish(who) /\ settleExtractPayerThrows(pp)
    THEN Threw
    ELSE [kind |-> "SettleResponse",
          success |-> FALSE,
          errorReason |-> reason,
          transaction |-> Coalesce(hash, extractFallbackTransaction(req)),
          network |-> req.network,
          payer |-> Coalesce(who, settleExtractPayer(pp))]

successResponse(req, hash, who) ==
    [kind |-> "SettleResponse",
     success |-> TRUE,
     errorReason |-> "",
     transaction |-> hash,
     network |-> req.network,
     payer |-> who]

\* the first guard of settle and of verify
networkGuardFails(pp, req) ==
    \/ pp.scheme # SCHEME
    \/ req.scheme # SCHEME
    \/ pp.network # req.network
    \/ req.network \notin Range(SupportedHLNetworks)

\* !payload?.action || typeof payload.action !== "object"
\* the guard with the test of verify that destination is a string
actionGuardFails_StringsToo(pp) ==
    pp.actionKind # "record" \/ pp.action.destination.t # "string"

actionGuardFails(pp) == pp.actionKind # "record"

\* extractExchangeTxHash preferring the fields in the opposite order
extractExchangeTxHash_HashFirst(response) ==
    Coalesce(Coalesce(response.hash, response.txHash), response.responseTxHash)

\* response.response?.txHash ?? response.txHash ?? response.hash
extractExchangeTxHash(response) ==
    Coalesce(Coalesce(response.responseTxHash, response.txHash), response.hash)

\* submitExchangeThrows without the test of body.status: any JSON body passes
submitExchangeThrows_StatusIgnored(response) ==
    \/ response.kind = "fetch_throws"
    \/ response.kind = "http_error"
    \/ response.kind = "body_not_json"

\* submitExchange throws "hyperliquid_exchange_failed", or fetch itself throws
submitExchangeThrows(response) ==
    \/ response.kind = "fetch_throws"
    \/ response.kind = "http_error"
    \/ response.kind = "body_not_json"
    \/ response.status # Str(<<"o","k">>)

\* transactionMatchesPayment without the comparison of the destination
transactionMatchesPayment_AnyDestination(tx, pp, req) ==
    LET action == getTxAction(tx)
        payloadAction == pp.action
        destinationMatches == equalsIgnoreCase(action.destination, Str(req.payTo))
        tokenMatches == equalsIgnoreCase(action.token, Str(req.asset))
        payloadAmount == coerceAmountToNumber(payloadAction.amount)
        txAmount == coerceAmountToNumber(action.amount)
        amountMatches == NumberEq(txAmount, payloadAmount)
        signatureChainMatches ==
            valuesMatch(action.signatureChainId, payloadAction.signatureChainId)
        hyperliquidChainMatches ==
            valuesMatch(action.hyperliquidChain, payloadAction.hyperliquidChain)
        typeMatches == valuesMatch(action.type, payloadAction.type)
        txTime == Coalesce(toNumber(action.time), toNumber(tx.time))
        payloadTime == toNumber(payloadAction.time)
        nonce == IF TypeOf(pp.nonce) = "number" THEN pp.nonce ELSE Undefined
        timeOrNonceMatches ==
            IF IsNullish(payloadTime) /\ IsNullish(nonce) THEN TRUE
            ELSE /\ ~IsNullish(txTime)
                 /\ \/ (~IsNullish(payloadTime) /\ txTime = payloadTime)
                    \/ (IsFiniteNumber(nonce) /\ txTime = nonce)
    IN  /\ tokenMatches
        /\ amountMatches
        /\ signatureChainMatches
        /\ hyperliquidChainMatches
        /\ typeMatches
        /\ timeOrNonceMatches

transactionMatchesPayment(tx, pp, req) ==
    LET action == getTxAction(tx)
        payloadAction == pp.action
        destinationMatches == equalsIgnoreCase(action.destination, Str(req.payTo))
        tokenMatches == equalsIgnoreCase(action.token, Str(req.asset))
        payloadAmount == coerceAmountToNumber(payloadAction.amount)
        txAmount == coerceAmountToNumber(action.amount)
        amountMatches == NumberEq(txAmount, payloadAmount)
        signatureChainMatches ==
            valuesMatch(action.signatureChainId, payloadAction.signatureChainId)
        hyperliquidChainMatches ==
            valuesMatch(action.hyperliquidChain, payloadAction.hyperliquidChain)
        typeMatches == valuesMatch(action.type, payloadAction.type)
        txTime == Coalesce(toNumber(action.time), toNumber(tx.time))
        payloadTime == toNumber(payloadAction.time)
        nonce == IF TypeOf(pp.nonce) = "number" THEN pp.nonce ELSE Undefined
        timeOrNonceMatches ==
            IF IsNullish(payloadTime) /\ IsNullish(nonce) THEN TRUE
            ELSE /\ ~IsNullish(txTime)
                 /\ \/ (~IsNullish(payloadTime) /\ txTime = payloadTime)
                    \/ (IsFiniteNumber(nonce) /\ txTime = nonce)
    IN  /\ destinationMatches
        /\ tokenMatches
        /\ amountMatches
        /\ signatureChainMatches
        /\ hyperliquidChainMatches
        /\ typeMatches
        /\ timeOrNonceMatches

\* [details.txs, details.userFlow, details.actions, details.transactions].find(Array.isArray)
extractUserTransactions(details) ==
    CASE details.txs.isArray -> details.txs.items
      [] details.userFlow.isArray -> details.userFlow.items
      [] details.actions.isArray -> details.actions.items
      [] details.transactions.isArray -> details.transactions.items
      [] OTHER -> <<>>

\* Array.prototype.filter
RECURSIVE FilterMatches(_, _, _)
FilterMatches(txs, pp, req) ==
    IF txs = <<>> THEN <<>>
    ELSE (IF transactionMatchesPayment(Head(txs), pp, req) THEN <<Head(txs)>> ELSE <<>>)
         \o FilterMatches(Tail(txs), pp, req)

\* SortLatestFirst with the comparison reversed: a - b, oldest first
RECURSIVE SortLatestFirst_OldestFirst(_)
SortLatestFirst_OldestFirst(txs) ==
    IF txs = <<>> THEN <<>>
    ELSE LET i == CHOOSE k \in 1..Len(txs) :
                      /\ \A m \in 1..Len(txs) :
                             getTxTimestamp(txs[m]) >= getTxTimestamp(txs[k])
                      /\ \A m \in 1..(k - 1) :
                             getTxTimestamp(txs[m]) > getTxTimestamp(txs[k])
         IN  <<txs[i]>> \o SortLatestFirst_OldestFirst(SubSeq(txs, 1, i - 1)
                                                        \o SubSeq(txs, i + 1, Len(txs)))

\* Array.prototype.sort((a, b) => getTxTimestamp(b) - getTxTimestamp(a)): stable, latest first
RECURSIVE SortLatestFirst(_)
SortLatestFirst(txs) ==
    IF txs = <<>> THEN <<>>
    ELSE LET i == CHOOSE k \in 1..Len(txs) :
                      /\ \A m \in 1..Len(txs) :
                             getTxTimestamp(txs[m]) <= getTxTimestamp(txs[k])
                      /\ \A m \in 1..(k - 1) :
                             getTxTimestamp(txs[m]) < getTxTimestamp(txs[k])
         IN  <<txs[i]>> \o SortLatestFirst(SubSeq(txs, 1, i - 1) \o SubSeq(txs, i + 1, Len(txs)))

\* matches.map(tx => tx.hash).find(hash => typeof hash === "string" && isHexHash(hash))
RECURSIVE FindHexHash(_)
FindHexHash(txs) ==
    IF txs = <<>> THEN Undefined
    ELSE IF Head(txs).hash.t = "string" /\ isHexHash(Head(txs).hash.s)
         THEN Head(txs).hash
         ELSE FindHexHash(Tail(txs))

\* details is the outcome of infoClient.userDetails: it throws, or holds the collections
findMatchingTransactionHash(details, pp, req) ==
    IF details.throws THEN Undefined
    ELSE FindHexHash(SortLatestFirst(FilterMatches(extractUserTransactions(details), pp, req)))

\* isNotFoundError without toLowerCase
isNotFoundError_CaseSensitive(message) == Includes(message, NotFoundSignal)

\* String(error?.toString()).toLowerCase().includes("not found")
isNotFoundError(message) == Includes(ToLowerCase(message), NotFoundSignal)

-----------------------------------------------------------------------------
(* The payloads, requirements and endpoint behaviours of the model *)

PAY_TO == <<"0","x">> \o Rep("a", 40)

PAY_TO_UPPER == <<"0","x">> \o Rep("A", 40)

OTHER_ADDRESS == <<"0","x">> \o Rep("c", 40)

PAYER_ADDRESS == <<"0","x">> \o Rep("b", 40)

ACTION_USER == <<"0","x">> \o Rep("d", 40)

USDC == <<"U","S","D","C",":","0","x","e","b","6","2","e","e","e","3","6","8","5","f","c","4","c","4","3","9","9","2","f","e","b","c","d","9","e","7","5","4","4","3">>

USDC_UPPER == <<"U","S","D","C",":","0","x","E","B","6","2","E","E","E","3","6","8","5","F","C","4","C","4","3","9","9","2","F","E","B","C","D","9","E","7","5","4","4","3">>

USDT == <<"U","S","D","T",":","0","x","e","b","6","2","e","e","e","3","6","8","5","f","c","4","c","4","3","9","9","2","f","e","b","c","d","9","e","7","5","4","4","3">>

BARE_TOKEN == <<"0","x","c","4","b","f","3","f","8","7","0","c","0","e","9","4","6","5","3","2","3","c","0","b","6","e","d","2","8","0","9","6","c","2">>

TX_HASH == <<"0","x">> \o Rep("2", 64)

LATER_HASH == <<"0","x">> \o Rep("A", 64)

FLAT_HASH == <<"0","x">> \o Rep("f", 64)

OTHER_HASH == <<"0","x">> \o Rep("3", 64)

ATOMIC_HASH == <<"0","x">> \o Rep("4", 64)

SHORT_HASH == <<"0","x">> \o Rep("2", 63)

TIMESTAMP == 1000000

BaseAction ==
    [destination |-> Str(PAY_TO),
     token |-> Str(USDC),
     amount |-> Str(<<"1">>),
     time |-> Num(TIMESTAMP),
     user |-> Undefined,
     type |-> Str(<<"s","p","o","t","S","e","n","d">>),
     signatureChainId |-> Str(<<"0","x","a","4","b","1">>),
     hyperliquidChain |-> Str(<<"M","a","i","n","n","e","t">>)]

NoAction ==
    [destination |-> Undefined, token |-> Undefined, amount |-> Undefined,
     time |-> Undefined, user |-> Undefined, type |-> Undefined,
     signatureChainId |-> Undefined, hyperliquidChain |-> Undefined]

\* no call in progress
NoPayload ==
    [scheme |-> "", network |-> "", actionKind |-> "missing", action |-> NoAction,
     nonce |-> Undefined, user |-> Undefined]

BaseRequirements ==
    [scheme |-> "exact",
     network |-> "hyperliquid",
     payTo |-> PAY_TO,
     asset |-> USDC,
     maxAmountRequired |-> <<"1","0","0","0","0","0","0">>,
     maxTimeoutSeconds |-> 300,
     decimals |-> Num(6),
     tokenSymbol |-> Undefined]

Networks == {"hyperliquid", "hyperliquid-testnet", "base"}

Schemes == {"exact", "upto"}

\* envelopes: every scheme, network and kind of action, against every scheme and network required
EnvelopeInputs ==
    {<<[scheme |-> s, network |-> n, actionKind |-> k,
        action |-> IF k = "record" THEN [BaseAction EXCEPT !.user = au] ELSE NoAction,
        nonce |-> Num(TIMESTAMP), user |-> u],
       [BaseRequirements EXCEPT !.scheme = rs, !.network = rn]>> :
        s \in Schemes, n \in Networks, rs \in Schemes, rn \in Networks,
        k \in {"record", "null", "missing", "scalar"},
        u \in {Undefined, Str(PAYER_ADDRESS)},
        au \in {Undefined, Str(ACTION_USER)}}

\* action records with a missing, mistyped or foreign destination, token or amount
ShapeInputs ==
    {<<[scheme |-> "exact", network |-> "hyperliquid", actionKind |-> "record",
        action |-> [BaseAction EXCEPT !.destination = d, !.token = t, !.amount = a],
        nonce |-> Num(TIMESTAMP), user |-> Str(PAYER_ADDRESS)],
       BaseRequirements>> :
        d \in {Str(PAY_TO), Undefined, Str(OTHER_ADDRESS)},
        t \in {Str(USDC), Num(7), Str(USDT)},
        a \in {Str(<<"1">>), Undefined}}

\* well-formed payments that differ in amount notation, time, nonce and payer
PaymentInputs ==
    {<<[scheme |-> "exact", network |-> "hyperliquid", actionKind |-> "record",
        action |-> [BaseAction EXCEPT !.amount = a, !.time = t],
        nonce |-> k, user |-> u],
       BaseRequirements>> :
        a \in {Str(<<"1">>), Str(<<"1",".","0">>)},
        t \in {Num(TIMESTAMP), Undefined},
        k \in {Num(TIMESTAMP), Num(TIMESTAMP + 1)},
        u \in {Str(PAYER_ADDRESS), Undefined, Str(<<>>)}}

SettleInputs == EnvelopeInputs \cup ShapeInputs \cup PaymentInputs

\* what the exchange endpoint may answer to the POST
ExchangeOutcomes ==
    {[kind |-> k, status |-> Undefined, responseTxHash |-> Undefined,
      txHash |-> Undefined, hash |-> Undefined] :
        k \in {"fetch_throws", "http_error", "body_not_json", "json"}}
    \cup
    {[kind |-> "json", status |-> Str(<<"e","r","r">>), responseTxHash |-> Undefined,
      txHash |-> Str(TX_HASH), hash |-> Undefined]}
    \cup
    {[kind |-> "json", status |-> Str(<<"o","k">>), responseTxHash |-> h[1],
      txHash |-> h[2], hash |-> h[3]] :
        h \in {<<Undefined, Undefined, Undefined>>,
               <<Str(TX_HASH), Str(SHORT_HASH), Str(SHORT_HASH)>>,
               <<Undefined, Str(TX_HASH), Str(SHORT_HASH)>>,
               <<Undefined, Undefined, Str(TX_HASH)>>,
               <<Undefined, Undefined, Str(SHORT_HASH)>>,
               <<Undefined, Str(<<>>), Str(TX_HASH)>>}}

\* no acknowledgment received
NoResponse ==
    [kind |-> "none", status |-> Undefined, responseTxHash |-> Undefined,
     txHash |-> Undefined, hash |-> Undefined]

\* the transactions a payer's history may hold
TxPool ==
    { \* the payment itself, as the explorer reports it
      [hash |-> Str(TX_HASH), time |-> Num(TIMESTAMP), nested |-> TRUE,
       action |-> BaseAction],
      \* the same payment one millisecond later, in other letter case and notation
      [hash |-> Str(LATER_HASH), time |-> Num(TIMESTAMP + 1), nested |-> TRUE,
       action |-> [BaseAction EXCEPT !.destination = Str(PAY_TO_UPPER),
                                     !.amount = Str(<<"1",".","0">>),
                                     !.time = Num(TIMESTAMP + 1)]],
      \* a transfer to somebody else
      [hash |-> Str(OTHER_HASH), time |-> Num(TIMESTAMP), nested |-> TRUE,
       action |-> [BaseAction EXCEPT !.destination = Str(OTHER_ADDRESS)]],
      \* the payment, reported with a hash that is not 64 hex digits
      [hash |-> Str(SHORT_HASH), time |-> Num(TIMESTAMP), nested |-> TRUE,
       action |-> BaseAction],
      \* the payment, reported flat (no action field) with a numeric amount
      [hash |-> Str(FLAT_HASH), time |-> Num(TIMESTAMP), nested |-> FALSE,
       action |-> [BaseAction EXCEPT !.amount = Num(1)]],
      \* the payment, reported with its amount in atomic units
      [hash |-> Str(ATOMIC_HASH), time |-> Num(TIMESTAMP), nested |-> TRUE,
       action |-> [BaseAction EXCEPT !.amount = Num(1000000)]] }

Histories == UNION {[1..k -> TxPool] : k \in 0..MaxHistory}

NotArray == [isArray |-> FALSE, items |-> <<>>]

Array(items) == [isArray |-> TRUE, items |-> items]

\* what infoClient.userDetails may answer
UserDetailsOutcomes ==
    {[throws |-> TRUE, txs |-> NotArray, userFlow |-> NotArray,
      actions |-> NotArray, transactions |-> NotArray]}
    \cup
    {[throws |-> FALSE, txs |-> Array(h), userFlow |-> NotArray,
      actions |-> NotArray, transactions |-> NotArray] : h \in Histories}
    \cup
    {[throws |-> FALSE, txs |-> NotArray, userFlow |-> NotArray,
      actions |-> NotArray, transactions |-> Array(h)] : h \in {<<>>} \cup [1..1 -> TxPool]}

NoUserDetails ==
    [throws |-> FALSE, txs |-> NotArray, userFlow |-> NotArray,
     actions |-> NotArray, transactions |-> NotArray]

\* what a txDetails request may do: answer with the transaction, answer without
\* one, or throw an error with a message
TxDetailsOutcomes ==
    {[kind |-> "tx", message |-> <<>>], [kind |-> "no_tx", message |-> <<>>]}
    \cup
    {[kind |-> "throws", message |-> m] :
        m \in {<<"t","r","a","n","s","a","c","t","i","o","n"," ","n","o","t"," ","f","o","u","n","d">>,
               <<"T","r","a","n","s","a","c","t","i","o","n"," ","N","o","t"," ","F","o","u","n","d">>,
               <<"t","e","m","p","o","r","a","r","y"," ","c","o","n","f","i","r","m","a","t","i","o","n"," ","e","r","r","o","r">>}}

-----------------------------------------------------------------------------
(* settle (src/unnamed/part_001, lines 26-106), one action per await *)

\* message: the text of the error a lookup threw, the status of an exchange answer
Request(to, kind, message) == [to |-> to, kind |-> kind, message |-> message]

\* settle returns r, or the fault r stands for leaves settle
Return(r) ==
    /\ result' = r
    /\ pc' = IF r.kind = "throw" THEN "threw" ELSE "returned"

\* ResolveTxHash without the test of lines 58-61: an unmatched payment falls
\* back to the hash of the acknowledgment
ResolveTxHash_FallBack(matched, exchangeHash) ==
    LET hash == Coalesce(matched, exchangeHash)
    IN  IF ~Truthy(hash) \/ ~isHexHash(hash.s)
        THEN /\ Return(failureResponse("hl_tx_not_found", paymentRequirements,
                                       paymentPayload, exchangeHash, payer))
             /\ UNCHANGED txHash
        ELSE /\ txHash' = hash
             /\ pc' = "txDetails"
             /\ UNCHANGED result

\* ResolveTxHash without the isHexHash test of line 65
ResolveTxHash_NoHexCheck(matched, exchangeHash) ==
    IF Truthy(payer) /\ ~Truthy(matched)
    THEN /\ Return(failureResponse("hl_tx_not_found", paymentRequirements,
                                   paymentPayload, exchangeHash, payer))
         /\ UNCHANGED txHash
    ELSE LET hash == Coalesce(matched, exchangeHash)
         IN  IF ~Truthy(hash)
             THEN /\ Return(failureResponse("hl_tx_not_found", paymentRequirements,
                                            paymentPayload, exchangeHash, payer))
                  /\ UNCHANGED txHash
             ELSE /\ txHash' = hash
                  /\ pc' = "txDetails"
                  /\ UNCHANGED result

\* lines 58-70: from the matched hash to the confirmation poll
ResolveTxHash(matched, exchangeHash) ==
    IF Truthy(payer) /\ ~Truthy(matched)
    THEN /\ Return(failureResponse("hl_tx_not_found", paymentRequirements,
                                   paymentPayload, exchangeHash, payer))
         /\ UNCHANGED txHash
    ELSE LET hash == Coalesce(matched, exchangeHash)
         IN  IF ~Truthy(hash) \/ ~isHexHash(hash.s)
             THEN /\ Return(failureResponse("hl_tx_not_found", paymentRequirements,
                                            paymentPayload, exchangeHash, payer))
                  /\ UNCHANGED txHash
             ELSE /\ txHash' = hash
                  /\ pc' = "txDetails"
                  /\ UNCHANGED result

\* CatchBlock without the catch: the fault leaves settle
CatchBlock_Rethrow == Return(Threw)

\* CatchBlock retrying the request that failed instead of reporting it
CatchBlock_Retry == UNCHANGED <<pc, result>>

\* CatchBlock reporting the fault with the reason of the confirmation poll
CatchBlock_WrongReason ==
    Return(failureResponse("hl_tx_unconfirmed", paymentRequirements,
                           paymentPayload, Undefined, Undefined))

\* lines 84-87: a fault of the try block is caught and reported
CatchBlock ==
    Return(failureResponse("hl_exchange_error", paymentRequirements,
                           paymentPayload, Undefined, Undefined))

\* retriesLeft with <= for <
retriesLeft_OffByOne(a) == a + 1 <= CONFIRMATION_RETRIES

\* retriesLeft with the poll given up one attempt early
retriesLeft_OneFewer(a) == a + 1 < CONFIRMATION_RETRIES - 1

\* line 93: attempt < CONFIRMATION_RETRIES, for the attempt after attempt a
retriesLeft(a) == a + 1 < CONFIRMATION_RETRIES

\* lines 32-48: the guards, before the first await
SettleCall ==
    /\ pc = "settle"
    /\ IF networkGuardFails(paymentPayload, paymentRequirements)
       THEN /\ Return(failureResponse("invalid_exact_hl_network", paymentRequirements,
                                      paymentPayload, Undefined, Undefined))
            /\ UNCHANGED payer
       ELSE IF actionGuardFails(paymentPayload)
            THEN /\ Return(failureResponse("invalid_exact_hl_payload", paymentRequirements,
                                           paymentPayload, Undefined, Undefined))
                 /\ UNCHANGED payer
            ELSE /\ payer' = settleExtractPayer(paymentPayload)
                 /\ pc' = "submitExchange"
                 /\ UNCHANGED result
    /\ UNCHANGED <<paymentPayload, paymentRequirements, exchangeResponse, exchangeTxHash,
                   userDetails, matchedHash, txHash, attempt, requests, verifyVars, other>>

\* lines 51-56 and 108-129: the POST to the exchange and its answer
SubmitExchange ==
    /\ pc = "submitExchange"
    /\ \E response \in ExchangeOutcomes :
        /\ requests' = Append(requests,
                              Request("exchange", response.kind, response.status.s))
        /\ IF submitExchangeThrows(response)
           THEN /\ CatchBlock
                /\ UNCHANGED <<exchangeResponse, exchangeTxHash, matchedHash, txHash>>
           ELSE /\ exchangeResponse' = response
                /\ exchangeTxHash' = extractExchangeTxHash(response)
                /\ IF Truthy(payer)
                   THEN /\ pc' = "userDetails"
                        /\ UNCHANGED <<matchedHash, txHash, result>>
                   ELSE /\ matchedHash' = Undefined
                        /\ ResolveTxHash(Undefined, extractExchangeTxHash(response))
    /\ UNCHANGED <<paymentPayload, paymentRequirements, payer, userDetails, attempt,
                   verifyVars, other>>

\* lines 54-68 and 139-162: the payer's history and the match in it
UserDetailsOn(outcomes) ==
    /\ pc = "userDetails"
    /\ \E details \in outcomes :
        LET matched == findMatchingTransactionHash(details, paymentPayload,
                                                   paymentRequirements)
        IN  /\ requests' = Append(requests,
                   Request("userDetails", IF details.throws THEN "throws" ELSE "json", <<>>))
            /\ userDetails' = details
            /\ matchedHash' = matched
            /\ ResolveTxHash(matched, exchangeTxHash)
    /\ UNCHANGED <<paymentPayload, paymentRequirements, payer, exchangeResponse,
                   exchangeTxHash, attempt, verifyVars, other>>

UserDetails == UserDetailsOn(UserDetailsOutcomes)

\* lines 70-83 and 92-106: one attempt of the confirmation poll
TxDetails ==
    /\ pc = "txDetails"
    /\ \E outcome \in TxDetailsOutcomes :
        /\ requests' = Append(requests, Request("txDetails", outcome.kind, outcome.message))
        /\ IF outcome.kind # "throws"
           THEN /\ Return(successResponse(paymentRequirements, txHash, payer))
                /\ UNCHANGED attempt
           ELSE IF isNotFoundError(outcome.message)
                THEN /\ Return(failureResponse("hl_tx_not_found", paymentRequirements,
                                               paymentPayload, txHash, payer))
                     /\ UNCHANGED attempt
                ELSE /\ attempt' = attempt + 1
                     /\ IF retriesLeft(attempt)
                        THEN UNCHANGED <<pc, result>>
                        ELSE Return(failureResponse("hl_tx_unconfirmed", paymentRequirements,
                                                    paymentPayload, txHash, payer))
    /\ UNCHANGED <<paymentPayload, paymentRequirements, payer, exchangeResponse,
                   exchangeTxHash, userDetails, matchedHash, txHash, verifyVars, other>>

EmptyCache == [k \in {} |-> Undefined]

\* no call of verify has returned yet
NoPrevious == [now |-> 0, requests |-> <<>>, result |-> NoResult]

\* the locals of a settle call that has been entered with pp and req
NewCall(pp, req) ==
    [pc |-> "settle", paymentPayload |-> pp, paymentRequirements |-> req,
     payer |-> Undefined, exchangeResponse |-> NoResponse, exchangeTxHash |-> Undefined,
     userDetails |-> NoUserDetails, matchedHash |-> Undefined, txHash |-> Undefined,
     attempt |-> 0, requests |-> <<>>, result |-> NoResult]

\* no second call
NoCall == [NewCall(NoPayload, BaseRequirements) EXCEPT !.pc = "none"]

Init ==
    /\ pc = "settle"
    /\ \E input \in SettleInputs :
        /\ paymentPayload = input[1]
        /\ paymentRequirements = input[2]
    /\ payer = Undefined
    /\ exchangeResponse = NoResponse
    /\ exchangeTxHash = Undefined
    /\ userDetails = NoUserDetails
    /\ matchedHash = Undefined
    /\ txHash = Undefined
    /\ attempt = 0
    /\ requests = <<>>
    /\ result = NoResult
    /\ now = 0
    /\ decimals = Undefined
    /\ cache = EmptyCache
    /\ previous = NoPrevious
    /\ other = NoCall

Next ==
    \/ SettleCall
    \/ SubmitExchange
    \/ UserDetails
    \/ TxDetails

Spec == Init /\ [][Next]_vars

-----------------------------------------------------------------------------
(* Two settle calls in one process.  The event loop runs one call at a     *)
(* time and may pass control to the other call at every await; the locals  *)
(* of the call that waits are kept in other.                               *)

\* the locals of the call that runs
CallState ==
    [pc |-> pc, paymentPayload |-> paymentPayload,
     paymentRequirements |-> paymentRequirements,
     payer |-> payer, exchangeResponse |-> exchangeResponse,
     exchangeTxHash |-> exchangeTxHash, userDetails |-> userDetails,
     matchedHash |-> matchedHash, txHash |-> txHash, attempt |-> attempt,
     requests |-> requests, result |-> result]

\* Resume with attempt kept in a variable of the module instead of the call
Resume_SharedAttempt(c) ==
    /\ pc' = c.pc
    /\ paymentPayload' = c.paymentPayload
    /\ paymentRequirements' = c.paymentRequirements
    /\ payer' = c.payer
    /\ exchangeResponse' = c.exchangeResponse
    /\ exchangeTxHash' = c.exchangeTxHash
    /\ userDetails' = c.userDetails
    /\ matchedHash' = c.matchedHash
    /\ txHash' = c.txHash
    /\ attempt' = attempt
    /\ requests' = c.requests
    /\ result' = c.result

\* the call with locals c runs on
Resume(c) ==
    /\ pc' = c.pc
    /\ paymentPayload' = c.paymentPayload
    /\ paymentRequirements' = c.paymentRequirements
    /\ payer' = c.payer
    /\ exchangeResponse' = c.exchangeResponse
    /\ exchangeTxHash' = c.exchangeTxHash
    /\ userDetails' = c.userDetails
    /\ matchedHash' = c.matchedHash
    /\ txHash' = c.txHash
    /\ attempt' = c.attempt
    /\ requests' = c.requests
    /\ result' = c.result

\* at an await (or at its return) the running call yields to the other call,
\* which has not returned yet
Switch ==
    /\ other.pc \notin {"none", "returned", "threw"}
    /\ other' = CallState
    /\ Resume(other)
    /\ UNCHANGED verifyVars

\* a payment of amount a, with the user u of the payload
PaymentOf(a, u) ==
    <<[scheme |-> "exact", network |-> "hyperliquid", actionKind |-> "record",
       action |-> [BaseAction EXCEPT !.amount = Str(a)],
       nonce |-> Num(TIMESTAMP), user |-> u],
      BaseRequirements>>

\* pairs of different payments: the first names its payer or not, the second
\* does not, so that settle has only the acknowledgment to resolve its id
ConcurrentInputs ==
    {<<PaymentOf(<<"1">>, u), PaymentOf(<<"2">>, Undefined)>> :
        u \in {Str(PAYER_ADDRESS), Undefined}}

\* two calls are entered with different payloads; the first runs
InitConcurrent ==
    /\ \E pair \in ConcurrentInputs :
        /\ pc = "settle"
        /\ paymentPayload = pair[1][1]
        /\ paymentRequirements = pair[1][2]
        /\ other = NewCall(pair[2][1], pair[2][2])
    /\ payer = Undefined
    /\ exchangeResponse = NoResponse
    /\ exchangeTxHash = Undefined
    /\ userDetails = NoUserDetails
    /\ matchedHash = Undefined
    /\ txHash = Undefined
    /\ attempt = 0
    /\ requests = <<>>
    /\ result = NoResult
    /\ now = 0
    /\ decimals = Undefined
    /\ cache = EmptyCache
    /\ previous = NoPrevious

\* the answers of infoClient.userDetails with at most one transaction
BriefUserDetailsOutcomes ==
    {details \in UserDetailsOutcomes :
        Len(details.txs.items) <= 1 /\ details.transactions.items = <<>>}

UserDetailsBrief == UserDetailsOn(BriefUserDetailsOutcomes)

NextConcurrent ==
    \/ SettleCall
    \/ SubmitExchange
    \/ UserDetailsBrief
    \/ TxDetails
    \/ Switch

SpecConcurrent == InitConcurrent /\ [][NextConcurrent]_vars

-----------------------------------------------------------------------------
(* verify: helpers of schemes/exact/hyperliquid/facilitator/verify.ts *)

\* typeof v === "string" ? v : undefined
stringOrUndefined(v) == IF v.t = "string" THEN v ELSE Undefined

\* /^\d+(\.\d+)?$/.test(sanitized)
isPlainDecimal(sanitized) ==
    LET parts == Split(sanitized, ".")
    IN  /\ Len(parts) \in {1, 2}
        /\ \A i \in 1..Len(parts) : parts[i] # <<>> /\ AllDigits(parts[i])

decimalToAtomicThrows(value) == ~isPlainDecimal(Trim(value))

\* decimalToAtomic without padEnd: a short fraction is not scaled
decimalToAtomic_NoPad(value, d) ==
    LET sanitized == Trim(value)
        parts == Split(sanitized, ".")
        whole == parts[1]
        fraction == IF Len(parts) > 1 THEN parts[2] ELSE <<>>
        normalizedFraction ==
            IF Len(fraction) > d THEN SubSeq(fraction, 1, d) ELSE fraction
    IN  BigAdd(BigShift(BigIntOfString(whole), d),
               BigIntOfString(IF normalizedFraction = <<>> THEN <<"0">> ELSE normalizedFraction))

\* value is a string for which decimalToAtomic does not throw, d >= 0
decimalToAtomic(value, d) ==
    LET sanitized == Trim(value)
        parts == Split(sanitized, ".")
        whole == parts[1]
        fraction == IF Len(parts) > 1 THEN parts[2] ELSE <<>>
        normalizedFraction ==
            IF Len(fraction) > d THEN SubSeq(fraction, 1, d) ELSE PadEndZero(fraction, d)
        wholeUnits ==
            BigShift(BigIntOfString(IF whole = <<>> THEN <<"0">> ELSE whole), d)
        fractionalUnits ==
            BigIntOfString(IF normalizedFraction = <<>> THEN <<"0">> ELSE normalizedFraction)
    IN  BigAdd(wholeUnits, fractionalUnits)

\* ensureAmountMeetsRequirement refusing every amount when decimals are unknown
ensureAmountMeetsRequirement_NeedsDecimals(payloadAmount, requiredAtomicAmount, d) ==
    IF IsNullish(d) \/ (d.t = "number" /\ d.n < 0)
    THEN FALSE
    ELSE IF d.t # "number"
         THEN FALSE
         ELSE IF decimalToAtomicThrows(payloadAmount) \/ BigIntThrows(requiredAtomicAmount)
              THEN FALSE
              ELSE NumberGE(decimalToAtomic(payloadAmount, d.n),
                            BigIntOfString(requiredAtomicAmount))

ensureAmountMeetsRequirement(payloadAmount, requiredAtomicAmount, d) ==
    IF IsNullish(d) \/ (d.t = "number" /\ d.n < 0)
    THEN NumberGE(NumberOfString(payloadAmount), NumberOfString(requiredAtomicAmount))
    ELSE IF d.t # "number"
         THEN FALSE      \* BigInt(NaN) throws a RangeError, caught
         ELSE IF decimalToAtomicThrows(payloadAmount) \/ BigIntThrows(requiredAtomicAmount)
              THEN FALSE \* caught
              ELSE NumberGE(decimalToAtomic(payloadAmount, d.n),
                            BigIntOfString(requiredAtomicAmount))

\* withinTtl with < for <=
withinTtl_Strict(actionTime, maxTimeoutSeconds, clock) ==
    /\ IsFiniteNumber(actionTime)
    /\ clock < actionTime.n + maxTimeoutSeconds * 1000

\* withinTtl with the comparison turned round
withinTtl_Reversed(actionTime, maxTimeoutSeconds, clock) ==
    IF ~IsFiniteNumber(actionTime)
    THEN FALSE
    ELSE LET expiresAt == actionTime.n + maxTimeoutSeconds * 1000
         IN  clock >= expiresAt

withinTtl(actionTime, maxTimeoutSeconds, clock) ==
    IF ~IsFiniteNumber(actionTime)
    THEN FALSE
    ELSE LET expiresAt == actionTime.n + maxTimeoutSeconds * 1000
         IN  clock <= expiresAt

\* extractHyperliquidTokenId that knows only the SYMBOL:0x... form
extractHyperliquidTokenId_PrefixedOnly(asset) ==
    IF asset = <<>> THEN Undefined
    ELSE LET parts == Split(asset, ":")
         IN  IF Len(parts) = 2 THEN Str(parts[2]) ELSE Undefined

\* extractHyperliquidTokenId that knows only the bare 0x... form
extractHyperliquidTokenId_BareOnly(asset) ==
    IF asset = <<>> THEN Undefined
    ELSE LET parts == Split(asset, ":")
         IN  IF Len(parts) = 1 /\ StartsWith(parts[1], <<"0","x">>) THEN Str(parts[1])
             ELSE Undefined

\* the token id of an asset string, or undefined
extractHyperliquidTokenId(asset) ==
    IF asset = <<>> THEN Undefined
    ELSE LET parts == Split(asset, ":")
         IN  IF Len(parts) = 2 THEN Str(parts[2])
             ELSE IF StartsWith(parts[1], <<"0","x">>) THEN Str(parts[1])
                  ELSE Undefined

\* verifyExtractPayer preferring action.user to payload.user
verifyExtractPayer_ActionFirst(pp) ==
    IF TypeOf(pp.action.user) = "string" THEN pp.action.user
    ELSE IF TypeOf(pp.user) = "string" THEN pp.user ELSE Undefined

verifyExtractPayer(pp) ==
    IF TypeOf(pp.user) = "string" THEN pp.user
    ELSE IF TypeOf(pp.action.user) = "string" THEN pp.action.user ELSE Undefined

Invalid(reason) ==
    [kind |-> "VerifyResponse", isValid |-> FALSE, invalidReason |-> reason,
     payer |-> Undefined]

Valid(who) ==
    [kind |-> "VerifyResponse", isValid |-> TRUE, invalidReason |-> "", payer |-> who]

\* verifyEarlyReason with the asset compared before the recipient
verifyEarlyReason_AssetFirst(pp, req) ==
    LET action == pp.action
        destination == stringOrUndefined(action.destination)
        token == stringOrUndefined(action.token)
        amount == stringOrUndefined(action.amount)
    IN  CASE networkGuardFails(pp, req) -> "invalid_exact_hl_network"
          [] ~networkGuardFails(pp, req) /\ pp.actionKind # "record" ->
                "invalid_exact_hl_payload"
          [] ~networkGuardFails(pp, req) /\ pp.actionKind = "record"
             /\ (~Truthy(destination) \/ ~Truthy(token) \/ ~Truthy(amount)) ->
                "invalid_exact_hl_payload"
          [] OTHER ->
                IF token.s # req.asset
                THEN "invalid_exact_hl_payload_asset_mismatch"
                ELSE IF ToLowerCase(destination.s) # ToLowerCase(req.payTo)
                     THEN "invalid_exact_hl_payload_recipient_mismatch"
                     ELSE ""

\* verifyEarlyReason with the token compared ignoring letter case
verifyEarlyReason_TokenIgnoreCase(pp, req) ==
    LET action == pp.action
        destination == stringOrUndefined(action.destination)
        token == stringOrUndefined(action.token)
        amount == stringOrUndefined(action.amount)
    IN  CASE networkGuardFails(pp, req) -> "invalid_exact_hl_network"
          [] ~networkGuardFails(pp, req) /\ pp.actionKind # "record" ->
                "invalid_exact_hl_payload"
          [] ~networkGuardFails(pp, req) /\ pp.actionKind = "record"
             /\ (~Truthy(destination) \/ ~Truthy(token) \/ ~Truthy(amount)) ->
                "invalid_exact_hl_payload"
          [] OTHER ->
                IF ToLowerCase(destination.s) # ToLowerCase(req.payTo)
                THEN "invalid_exact_hl_payload_recipient_mismatch"
                ELSE IF ToLowerCase(token.s) # ToLowerCase(req.asset)
                     THEN "invalid_exact_hl_payload_asset_mismatch"
                     ELSE ""

\* lines 18-63: the checks made before decimals are resolved; "" when all pass
verifyEarlyReason(pp, req) ==
    LET action == pp.action
        destination == stringOrUndefined(action.destination)
        token == stringOrUndefined(action.token)
        amount == stringOrUndefined(action.amount)
    IN  CASE networkGuardFails(pp, req) -> "invalid_exact_hl_network"
          [] ~networkGuardFails(pp, req) /\ pp.actionKind # "record" ->
                "invalid_exact_hl_payload"
          [] ~networkGuardFails(pp, req) /\ pp.actionKind = "record"
             /\ (~Truthy(destination) \/ ~Truthy(token) \/ ~Truthy(amount)) ->
                "invalid_exact_hl_payload"
          [] OTHER ->
                IF ToLowerCase(destination.s) # ToLowerCase(req.payTo)
                THEN "invalid_exact_hl_payload_recipient_mismatch"
                ELSE IF token.s # req.asset
                     THEN "invalid_exact_hl_payload_asset_mismatch"
                     ELSE ""

\* lines 67-89: the checks made once decimals are resolved
verifyLateResponse(pp, req, d, clock) ==
    IF ~ensureAmountMeetsRequirement(pp.action.amount.s, req.maxAmountRequired, d)
    THEN Invalid("invalid_exact_hl_payload_amount_mismatch")
    ELSE IF ~withinTtl(pp.action.time, req.maxTimeoutSeconds, clock)
         THEN Invalid("payment_expired")
         ELSE Valid(verifyExtractPayer(pp))

-----------------------------------------------------------------------------
(* fetchHyperliquidTokenInfo and its cache (shared/hyperliquid/index.ts) *)

\* `${network}:${tokenId.toLowerCase()}`
\* cacheKey without toLowerCase
cacheKey_CaseSensitive(network, tokenId) == <<network, tokenId>>

cacheKey(network, tokenId) == <<network, ToLowerCase(tokenId)>>

cacheHas(key) == key \in DOMAIN cache

\* cacheSet storing the info without the decimals of the answer
cacheSet_DropsDecimals(key, info) ==
    [k \in DOMAIN cache \cup {key} |->
        IF k = key THEN [info EXCEPT !.decimals = Num(0)] ELSE cache[k]]

cacheSet(key, info) == [k \in DOMAIN cache \cup {key} |-> IF k = key THEN info ELSE cache[k]]

TokenInfo(weiDecimals, tokenId) == [decimals |-> Num(weiDecimals), tokenId |-> tokenId]

-----------------------------------------------------------------------------
(* The inputs of verify *)

\* the clock when a behaviour of verify starts
NowStart == 2 * TIMESTAMP

TTL_MS == 300 * 1000

Fresh(pp) ==
    IF pp.actionKind = "record" THEN [pp EXCEPT !.action.time = Num(NowStart)] ELSE pp

VerifyEnvelopeInputs == {<<Fresh(input[1]), input[2]>> : input \in EnvelopeInputs}

\* payloads that break several checks at once
OrderInputs ==
    {<<[scheme |-> "exact", network |-> "hyperliquid", actionKind |-> "record",
        action |-> [BaseAction EXCEPT !.destination = d, !.token = tk, !.amount = a,
                                      !.time = tm],
        nonce |-> Num(1), user |-> Str(PAYER_ADDRESS)],
       BaseRequirements>> :
        d \in {Str(PAY_TO), Str(PAY_TO_UPPER), Str(OTHER_ADDRESS), Undefined, Str(<<>>), Num(5)},
        tk \in {Str(USDC), Str(USDC_UPPER), Str(USDT), Undefined},
        a \in {Str(<<"1",".","5">>), Str(<<"0",".","5">>), Num(1), Undefined},
        tm \in {Num(NowStart), Num(NowStart - TTL_MS - 1)}}

\* action.time around the expiry boundary, and of every type
TimeInputs ==
    {<<[scheme |-> "exact", network |-> "hyperliquid", actionKind |-> "record",
        action |-> [BaseAction EXCEPT !.time = tm],
        nonce |-> Num(1), user |-> Str(PAYER_ADDRESS)],
       [BaseRequirements EXCEPT !.maxTimeoutSeconds = ttl]>> :
        tm \in {Num(NowStart - 300001), Num(NowStart - 300000), Num(NowStart - 299999),
                Num(NowStart - 299000), Num(NowStart), Num(NowStart + 1),
                Undefined, Null, NotANumber, Str(NumberToString(NowStart))},
        ttl \in {300, 0}}

\* requirements with and without extra.decimals, for each form of asset
DecimalsInputs ==
    {<<[scheme |-> "exact", network |-> "hyperliquid", actionKind |-> "record",
        action |-> [BaseAction EXCEPT !.token = Str(as), !.amount = Str(a),
                                      !.time = Num(NowStart), !.user = au],
        nonce |-> Num(1), user |-> u],
       [BaseRequirements EXCEPT !.asset = as, !.maxAmountRequired = m, !.decimals = d]>> :
        as \in {USDC, BARE_TOKEN, <<"U","S","D","C">>},
        a \in {<<"1",".","2","3","4">>, <<"1">>, <<"1","2","3","4">>},
        m \in {<<"1","2","3","4">>, <<"1","0","0","0","0","0","0">>},
        d \in {Undefined, Num(6), Str(<<"6">>)},
        u \in {Str(PAYER_ADDRESS), Undefined},
        au \in {Undefined, Str(ACTION_USER)}}

\* requirements without extra.decimals whose token ids differ in letter case
\* or in network only
CacheInputs ==
    {<<[scheme |-> "exact", network |-> n, actionKind |-> "record",
        action |-> [BaseAction EXCEPT !.token = Str(as), !.time = Num(NowStart)],
        nonce |-> Num(1), user |-> Str(PAYER_ADDRESS)],
       [BaseRequirements EXCEPT !.network = n, !.asset = as,
                                !.maxAmountRequired = <<"1","2","3","4">>,
                                !.decimals = Undefined]>> :
        n \in {"hyperliquid", "hyperliquid-testnet"},
        as \in {USDC, USDC_UPPER}}

VerifyInputs ==
    VerifyEnvelopeInputs \cup OrderInputs \cup TimeInputs \cup DecimalsInputs \cup CacheInputs

\* the characters of a generated amount string
AmountAlphabet == {"0", "1", "9", ".", "-", " "}

GeneratedAmounts == UNION {[1..k -> AmountAlphabet] : k \in 1..MaxAmountLen}

ExampleAmounts ==
    {<<"1">>, <<"1",".","0","0","0","0","0","1">>, <<"0",".","9","9","9","9","9","9">>, <<"1",".","5">>, <<"0",".","5">>}

\* every generated amount against requirements with decimals given
AmountInputs ==
    {<<[scheme |-> "exact", network |-> "hyperliquid", actionKind |-> "record",
        action |-> [BaseAction EXCEPT !.amount = Str(a), !.time = Num(NowStart)],
        nonce |-> Num(1), user |-> Str(PAYER_ADDRESS)],
       [BaseRequirements EXCEPT !.maxAmountRequired = m, !.decimals = d]>> :
        a \in GeneratedAmounts \cup ExampleAmounts,
        m \in {<<"1">>, <<"1","0">>, <<"1","0","0","0","0","0","0">>},
        d \in {Num(0), Num(1), Num(2), Num(6), Num(0 - 1), NotANumber}}

\* the decimals the network reports for a token
TokenWeiDecimals(tokenId) ==
    IF ToLowerCase(tokenId) = ToLowerCase(BARE_TOKEN) THEN 3 ELSE 6

\* what infoClient.tokenDetails may do
TokenDetailsOutcomes(tokenId) ==
    {[throws |-> TRUE, weiDecimals |-> 0],
     [throws |-> FALSE, weiDecimals |-> TokenWeiDecimals(tokenId)]}

-----------------------------------------------------------------------------
(* verify (verify.ts, lines 12-90), one action per external request *)

\* the token id resolveDecimals looks up; undefined when it looks nothing up
lookupTokenId(req) ==
    IF TypeOf(req.decimals) = "number" THEN Undefined
    ELSE LET tokenId == extractHyperliquidTokenId(req.asset)
         IN  IF Truthy(tokenId) THEN tokenId ELSE Undefined

\* verify(pp, req) as far as it gets without an external request
VerifyStart(pp, req) ==
    LET early == verifyEarlyReason(pp, req)
        tokenId == lookupTokenId(req)
    IN  /\ paymentPayload' = pp
        /\ paymentRequirements' = req
        /\ requests' = <<>>
        /\ IF early # ""
           THEN /\ result' = Invalid(early)
                /\ decimals' = Undefined
                /\ pc' = "verified"
           ELSE IF TypeOf(req.decimals) = "number"
                THEN /\ decimals' = req.decimals
                     /\ result' = verifyLateResponse(pp, req, req.decimals, now)
                     /\ pc' = "verified"
                ELSE IF IsNullish(tokenId)
                     THEN /\ decimals' = Undefined
                          /\ result' = verifyLateResponse(pp, req, Undefined, now)
                          /\ pc' = "verified"
                     ELSE IF cacheHas(cacheKey(req.network, tokenId.s))
                          THEN LET info == cache[cacheKey(req.network, tokenId.s)]
                               IN  /\ decimals' = info.decimals
                                   /\ result' = verifyLateResponse(pp, req, info.decimals, now)
                                   /\ pc' = "verified"
                          ELSE /\ decimals' = Undefined
                               /\ result' = NoResult
                               /\ pc' = "tokenDetails"

\* a call of verify on one of the inputs
VerifyCallOn(inputs) ==
    /\ pc = "idle"
    /\ \E input \in inputs : VerifyStart(input[1], input[2])
    /\ UNCHANGED <<settleVars, now, cache, previous, other>>

VerifyCall == VerifyCallOn(VerifyInputs)

VerifyAmount == VerifyCallOn(AmountInputs)

\* the answer of infoClient.tokenDetails, and the rest of verify
TokenDetails ==
    /\ pc = "tokenDetails"
    /\ LET tokenId == lookupTokenId(paymentRequirements)
           key == cacheKey(paymentRequirements.network, tokenId.s)
       IN  \E outcome \in TokenDetailsOutcomes(tokenId.s) :
            LET d == IF outcome.throws THEN Undefined ELSE Num(outcome.weiDecimals)
            IN  /\ requests' = Append(requests,
                       Request("tokenDetails", IF outcome.throws THEN "throws" ELSE "json", <<>>))
                /\ cache' = IF outcome.throws THEN cache
                            ELSE cacheSet(key, TokenInfo(outcome.weiDecimals, tokenId.s))
                /\ decimals' = d
                /\ result' = verifyLateResponse(paymentPayload, paymentRequirements, d, now)
                /\ pc' = "verified"
    /\ UNCHANGED <<paymentPayload, paymentRequirements, settleVars, now, previous, other>>

\* Date.now() advances by a millisecond, between calls or during the lookup
Tick ==
    /\ pc \in {"idle", "tokenDetails"}
    /\ now < NowStart + MaxTicks
    /\ now' = now + 1
    /\ UNCHANGED <<pc, paymentPayload, paymentRequirements, settleVars, requests, result,
                   decimals, cache, previous, other>>

\* the response has been handed to the caller; the next call may start
VerifyReturn ==
    /\ pc = "verified"
    /\ pc' = "idle"
    /\ paymentPayload' = NoPayload
    /\ paymentRequirements' = BaseRequirements
    /\ requests' = <<>>
    /\ result' = NoResult
    /\ decimals' = Undefined
    /\ UNCHANGED <<settleVars, now, cache, previous, other>>

InitVerify ==
    /\ pc = "idle"
    /\ paymentPayload = NoPayload
    /\ paymentRequirements = BaseRequirements
    /\ payer = Undefined
    /\ exchangeResponse = NoResponse
    /\ exchangeTxHash = Undefined
    /\ userDetails = NoUserDetails
    /\ matchedHash = Undefined
    /\ txHash = Undefined
    /\ attempt = 0
    /\ requests = <<>>
    /\ result = NoResult
    /\ now = NowStart
    /\ decimals = Undefined
    /\ cache = EmptyCache
    /\ previous = NoPrevious
    /\ other = NoCall

NextVerify ==
    \/ VerifyCall
    \/ TokenDetails
    \/ VerifyReturn
    \/ Tick

SpecVerify == InitVerify /\ [][NextVerify]_vars

NextAmount == VerifyAmount

SpecAmount == InitVerify /\ [][NextAmount]_vars

\* the caller keeps the response and calls verify again on the same payload
\* and requirements
VerifyRepeat ==
    /\ pc = "verified"
    /\ previous' = [now |-> now, requests |-> requests, result |-> result]
    /\ VerifyStart(paymentPayload, paymentRequirements)
    /\ UNCHANGED <<settleVars, now, cache, other>>

NextRepeat ==
    \/ VerifyCall
    \/ TokenDetails
    \/ VerifyRepeat
    \/ Tick

SpecRepeat == InitVerify /\ [][NextRepeat]_vars

\* payloads that expire within the clock steps of a behaviour, against
\* requirements with and without extra.decimals
ExpiryInputs ==
    {<<[scheme |-> "exact", network |-> "hyperliquid", actionKind |-> "record",
        action |-> [BaseAction EXCEPT !.time = tm],
        nonce |-> Num(1), user |-> Str(PAYER_ADDRESS)],
       [BaseRequirements EXCEPT !.maxTimeoutSeconds = ttl, !.decimals = d]>> :
        tm \in {Num(NowStart - 300001), Num(NowStart - 300000), Num(NowStart - 299999),
                Num(NowStart - 299998), Num(NowStart), NotANumber},
        ttl \in {300, 0},
        d \in {Num(6), Undefined}}

VerifyExpiring == VerifyCallOn(ExpiryInputs)

\* the caller holds the response while Date.now() advances by a millisecond
Wait ==
    /\ pc = "verified"
    /\ now < NowStart + MaxTicks
    /\ now' = now + 1
    /\ UNCHANGED <<pc, paymentPayload, paymentRequirements, settleVars, requests, result,
                   decimals, cache, previous, other>>

\* the caller calls verify again on the same payload and requirements, and
\* keeps the first payment_expired response it was given
VerifyAgain ==
    /\ pc = "verified"
    /\ previous' = IF previous.result = Invalid("payment_expired")
                   THEN previous
                   ELSE [now |-> now, requests |-> requests, result |-> result]
    /\ VerifyStart(paymentPayload, paymentRequirements)
    /\ UNCHANGED <<settleVars, now, cache, other>>

NextExpiry ==
    \/ VerifyExpiring
    \/ TokenDetails
    \/ Tick
    \/ Wait
    \/ VerifyAgain

SpecExpiry == InitVerify /\ [][NextExpiry]_vars

\* payloads that break the checks made before decimals are resolved, against
\* requirements with and without extra.decimals
LookupInputs ==
    {<<[scheme |-> "exact", network |-> pn, actionKind |-> "record",
        action |-> [BaseAction EXCEPT !.destination = dst, !.token = tk,
                                      !.time = Num(NowStart)],
        nonce |-> Num(1), user |-> Str(PAYER_ADDRESS)],
       [BaseRequirements EXCEPT !.network = rn, !.decimals = d]>> :
        pn \in {"hyperliquid", "hyperliquid-testnet"},
        rn \in {"hyperliquid", "base"},
        dst \in {Str(PAY_TO), Str(OTHER_ADDRESS), Undefined},
        tk \in {Str(USDC), Str(USDC_UPPER), Str(USDT), Undefined},
        d \in {Undefined, Num(6)}}

VerifyLookup == VerifyCallOn(LookupInputs)

NextLookup ==
    \/ VerifyLookup
    \/ TokenDetails
    \/ VerifyReturn

SpecLookup == InitVerify /\ [][NextLookup]_vars

-----------------------------------------------------------------------------
(* fetchHyperliquidTokenInfo (shared/hyperliquid/index.ts, lines 109-132)   *)
(* called by two callers; other holds the two calls, requests the lookups   *)
(* sent, their answers and the writes of hyperliquidTokenInfoCache in order *)

\* line 40: !SupportedHLNetworks.includes(network)
assertHyperliquidNetworkThrows(network) == network \notin Range(SupportedHLNetworks)

NoInfo == [decimals |-> Undefined, tokenId |-> <<>>]

FetchCall(network, tokenId) ==
    [pc |-> "called", network |-> network, tokenId |-> tokenId, info |-> NoInfo,
     error |-> ""]

FetchTokenIds ==
    {extractHyperliquidTokenId(USDC).s, extractHyperliquidTokenId(USDC_UPPER).s, BARE_TOKEN}

FetchInputs ==
    {FetchCall(n, t) : n \in {"hyperliquid", "hyperliquid-testnet", "base"},
                       t \in FetchTokenIds}

InitFetch ==
    /\ pc = "fetchHyperliquidTokenInfo"
    /\ other \in [1..2 -> FetchInputs]
    /\ paymentPayload = NoPayload
    /\ paymentRequirements = BaseRequirements
    /\ payer = Undefined
    /\ exchangeResponse = NoResponse
    /\ exchangeTxHash = Undefined
    /\ userDetails = NoUserDetails
    /\ matchedHash = Undefined
    /\ txHash = Undefined
    /\ attempt = 0
    /\ requests = <<>>
    /\ result = NoResult
    /\ now = NowStart
    /\ decimals = Undefined
    /\ cache = EmptyCache
    /\ previous = NoPrevious

fetchKey(c) == cacheKey(c.network, c.tokenId)

\* lines 115-123: up to the await of client.tokenDetails
FetchStart(i) ==
    LET c == other[i]
        key == fetchKey(c)
    IN  /\ c.pc = "called"
        /\ IF assertHyperliquidNetworkThrows(c.network)
           THEN /\ other' = [other EXCEPT ![i].pc = "threw",
                                          ![i].error = "Unsupported Hyperliquid network"]
                /\ UNCHANGED requests
           ELSE IF cacheHas(key)
                THEN /\ other' = [other EXCEPT ![i].pc = "returned", ![i].info = cache[key]]
                     /\ UNCHANGED requests
                ELSE /\ other' = [other EXCEPT ![i].pc = "tokenDetails"]
                     /\ requests' = Append(requests, Request("tokenDetails", "sent", key))
        /\ UNCHANGED <<pc, paymentPayload, paymentRequirements, settleVars, result, verifyVars>>

\* FetchResume storing an entry for a lookup that failed
FetchResume_StoresFailure(i) ==
    LET c == other[i]
        key == fetchKey(c)
    IN  /\ c.pc = "tokenDetails"
        /\ \E outcome \in TokenDetailsOutcomes(c.tokenId) :
            LET info == TokenInfo(outcome.weiDecimals, c.tokenId)
            IN  IF outcome.throws
                THEN /\ other' = [other EXCEPT ![i].pc = "threw", ![i].error = "tokenDetails"]
                     /\ requests' = Append(requests, Request("tokenDetails", "throws", key))
                     /\ cache' = cacheSet(key, info)
                ELSE /\ other' = [other EXCEPT ![i].pc = "returned", ![i].info = info]
                     /\ requests' = requests \o <<Request("tokenDetails", "json", key),
                                                   Request("cache", "set", key)>>
                     /\ cache' = cacheSet(key, info)
        /\ UNCHANGED <<pc, paymentPayload, paymentRequirements, settleVars, result, now,
                       decimals, previous>>

\* lines 123-131: the answer of client.tokenDetails, and the write of the cache
FetchResume(i) ==
    LET c == other[i]
        key == fetchKey(c)
    IN  /\ c.pc = "tokenDetails"
        /\ \E outcome \in TokenDetailsOutcomes(c.tokenId) :
            LET info == TokenInfo(outcome.weiDecimals, c.tokenId)
            IN  IF outcome.throws
                THEN /\ other' = [other EXCEPT ![i].pc = "threw", ![i].error = "tokenDetails"]
                     /\ requests' = Append(requests, Request("tokenDetails", "throws", key))
                     /\ UNCHANGED cache
                ELSE /\ other' = [other EXCEPT ![i].pc = "returned", ![i].info = info]
                     /\ requests' = requests \o <<Request("tokenDetails", "json", key),
                                                   Request("cache", "set", key)>>
                     /\ cache' = cacheSet(key, info)
        /\ UNCHANGED <<pc, paymentPayload, paymentRequirements, settleVars, result, now,
                       decimals, previous>>

NextFetch ==
    \/ \E i \in 1..2 : FetchStart(i)
    \/ \E i \in 1..2 : FetchResume(i)

SpecFetch == InitFetch /\ [][NextFetch]_vars

-----------------------------------------------------------------------------
(* The helpers of shared/hyperliquid/index.ts, lines 18-92, on the networks *)
(* of NetworkSchema; a helper returns a value or throws an Error            *)

HelperThrows(message) == [throws |-> TRUE, message |-> message, value |-> Undefined]

HelperReturns(value) == [throws |-> FALSE, message |-> "", value |-> value]

\* lines 18-35; toHex(arbitrum.id) is "0xa4b1"
HyperliquidNetworkConfigs ==
    [n \in {"hyperliquid-testnet", "hyperliquid"} |->
        [token |-> USDC, decimals |-> 6, signatureChainId |-> <<"0","x","a","4","b","1">>]]

\* types/shared, part_000 lines 106-109
HlNetworkToChainName ==
    [n \in {"hyperliquid-testnet", "hyperliquid"} |->
        IF n = "hyperliquid-testnet" THEN <<"T","e","s","t","n","e","t">>
        ELSE <<"M","a","i","n","n","e","t">>]

getHyperliquidNetworkConfig(network) ==
    IF assertHyperliquidNetworkThrows(network)
    THEN HelperThrows("Unsupported Hyperliquid network")
    ELSE IF network \notin DOMAIN HyperliquidNetworkConfigs
         THEN HelperThrows("Missing Hyperliquid config")
         ELSE HelperReturns(HyperliquidNetworkConfigs[network])

getDefaultHyperliquidAsset(network) ==
    LET config == getHyperliquidNetworkConfig(network)
    IN  IF config.throws THEN config
        ELSE HelperReturns([address |-> config.value.token,
                            decimals |-> config.value.decimals])

getHyperliquidSignatureChainId(network) ==
    LET config == getHyperliquidNetworkConfig(network)
    IN  IF config.throws THEN config ELSE HelperReturns(config.value.signatureChainId)

\* getHyperliquidChain with its two throws
getHyperliquidChainChecked(network) ==
    IF assertHyperliquidNetworkThrows(network)
    THEN HelperThrows("Unsupported Hyperliquid network")
    ELSE IF network \notin DOMAIN HlNetworkToChainName
         THEN HelperThrows("Missing Hyperliquid chain mapping")
         ELSE HelperReturns(HlNetworkToChainName[network])

\* the client is known by the isTestnet of its transport
createInfoClient(network) ==
    IF assertHyperliquidNetworkThrows(network)
    THEN HelperThrows("Unsupported Hyperliquid network")
    ELSE HelperReturns([isTestnet |-> network = "hyperliquid-testnet"])

\* getExchangeBaseUrl with the two URLs exchanged
getExchangeBaseUrl_Swapped(network) ==
    IF assertHyperliquidNetworkThrows(network)
    THEN HelperThrows("Unsupported Hyperliquid network")
    ELSE HelperReturns(IF network = "hyperliquid-testnet"
                       THEN "https://api.hyperliquid.xyz/exchange"
                       ELSE "https://api.hyperliquid-testnet.xyz/exchange")

getExchangeBaseUrl(network) ==
    IF assertHyperliquidNetworkThrows(network)
    THEN HelperThrows("Unsupported Hyperliquid network")
    ELSE HelperReturns(IF network = "hyperliquid-testnet"
                       THEN "https://api.hyperliquid-testnet.xyz/exchange"
                       ELSE "https://api.hyperliquid.xyz/exchange")

\* settle, line 47: the endpoint submitExchange posts to
settleEndpoint(req) == getExchangeBaseUrl(req.network)

HelperNames ==
    {"getDefaultHyperliquidAsset", "getHyperliquidSignatureChainId", "getHyperliquidChain",
     "createInfoClient", "getExchangeBaseUrl"}

HelperOutcome(helper, network) ==
    CASE helper = "getDefaultHyperliquidAsset" -> getDefaultHyperliquidAsset(network)
      [] helper = "getHyperliquidSignatureChainId" -> getHyperliquidSignatureChainId(network)
      [] helper = "getHyperliquidChain" -> getHyperliquidChainChecked(network)
      [] helper = "createInfoClient" -> createInfoClient(network)
      [] OTHER -> getExchangeBaseUrl(network)

\* the networks of NetworkSchema that the model names
HelperNetworks ==
    {"hyperliquid", "hyperliquid-testnet", "base", "base-sepolia", "solana", "solana-devnet"}

\* a settle call is entered with a payload of network pn against requirements
\* of network rn; two calls of fetchHyperliquidTokenInfo are made for rn
InitHelpers ==
    /\ pc = "settle"
    /\ \E pn \in {"hyperliquid", "hyperliquid-testnet", "base"} : \E rn \in HelperNetworks :
        /\ paymentPayload = [scheme |-> "exact", network |-> pn, actionKind |-> "record",
                             action |-> BaseAction, nonce |-> Num(TIMESTAMP),
                             user |-> Str(PAYER_ADDRESS)]
        /\ paymentRequirements = [BaseRequirements EXCEPT !.network = rn]
        /\ other = [i \in 1..2 |-> FetchCall(rn, extractHyperliquidTokenId(USDC).s)]
    /\ payer = Undefined
    /\ exchangeResponse = NoResponse
    /\ exchangeTxHash = Undefined
    /\ userDetails = NoUserDetails
    /\ matchedHash = Undefined
    /\ txHash = Undefined
    /\ attempt = 0
    /\ requests = <<>>
    /\ result = NoResult
    /\ now = NowStart
    /\ decimals = Undefined
    /\ cache = EmptyCache
    /\ previous = NoPrevious

\* a helper is called with the network of the requirements
HelperCall ==
    /\ pc = "settle"
    /\ \E helper \in HelperNames :
        result' = [kind |-> "helper", helper |-> helper,
                   outcome |-> HelperOutcome(helper, paymentRequirements.network)]
    /\ UNCHANGED <<pc, paymentPayload, paymentRequirements, settleVars, requests,
                   verifyVars, other>>

NextHelpers ==
    \/ HelperCall
    \/ SettleCall
    \/ SubmitExchange
    \/ \E i \in 1..2 : FetchStart(i)
    \/ \E i \in 1..2 : FetchResume(i)

SpecHelpers == InitHelpers /\ [][NextHelpers]_vars

\* a settle call or a sequence of verify calls
InitAll == Init \/ InitVerify

NextAll == Next \/ NextVerify

SpecAll == InitAll /\ [][NextAll]_vars

-----------------------------------------------------------------------------
(* The payload codec (src/unnamed/part_000, lines 118-238).                *)
(*                                                                         *)
(* A JavaScript object is the function from the paths of its leaves (the   *)
(* keys from the root down) to the leaves, which are the values of above;  *)
(* a key the object does not have is a path the function does not have,    *)
(* and a bigint is the leaf [t |-> "bigint"] with its digits in s.  A JSON *)
(* text is kept as its syntax tree, in the same form, and the base64 text  *)
(* of a JSON text as that tree in a wrapper.                               *)

BigInt(digits) == [t |-> "bigint", s |-> digits, n |-> 0]

IsPrefix(path, p) == Len(path) <= Len(p) /\ SubSeq(p, 1, Len(path)) = path

HasKey(v, path) == \E p \in DOMAIN v : IsPrefix(path, p)

\* typeof of the value at path is "string"
IsStringAt(v, path) == path \in DOMAIN v /\ v[path].t = "string"

IsNumberAt(v, path) == path \in DOMAIN v /\ v[path].t = "number"

\* the value at path is an object (with a key)
IsObjectAt(v, path) == \E p \in DOMAIN v : IsPrefix(path, p) /\ p # path

\* v with, of the keys of the object at path, those of keys only
Pick(v, path, keys) ==
    [p \in {q \in DOMAIN v :
                (IsPrefix(path, q) /\ Len(q) > Len(path)) => q[Len(path) + 1] \in keys}
        |-> v[p]]

\* the object whose keys are the fields of record
ObjectOf(record) == [p \in {<<k>> : k \in DOMAIN record} |-> record[p[1]]]

\* the object v as the value of key
Under(key, v) == [p \in {<<key>> \o q : q \in DOMAIN v} |-> v[Tail(p)]]

NetworkChars ==
    [n \in {"hyperliquid", "hyperliquid-testnet", "base", "base-sepolia", "solana",
            "solana-devnet"} |->
        CASE n = "hyperliquid" -> <<"h","y","p","e","r","l","i","q","u","i","d">>
          [] n = "hyperliquid-testnet" ->
                <<"h","y","p","e","r","l","i","q","u","i","d","-","t","e","s","t","n","e","t">>
          [] n = "base" -> <<"b","a","s","e">>
          [] n = "base-sepolia" -> <<"b","a","s","e","-","s","e","p","o","l","i","a">>
          [] n = "solana" -> <<"s","o","l","a","n","a">>
          [] OTHER -> <<"s","o","l","a","n","a","-","d","e","v","n","e","t">>]

SchemeChars == <<"e","x","a","c","t">>

SupportedEVMNetworks == {NetworkChars["base"], NetworkChars["base-sepolia"]}

SupportedSVMNetworks == {NetworkChars["solana"], NetworkChars["solana-devnet"]}

SupportedHLNetworkChars == {NetworkChars[n] : n \in Range(SupportedHLNetworks)}

NetworkSchema == SupportedEVMNetworks \cup SupportedSVMNetworks \cup SupportedHLNetworkChars

RECURSIVE IntOfDigits(_)
IntOfDigits(ds) ==
    IF ds = <<>> THEN 0
    ELSE 10 * IntOfDigits(SubSeq(ds, 1, Len(ds) - 1)) + DigitVal(ds[Len(ds)])

\* JSON.stringify throws a TypeError on a bigint
JSONstringifyThrows(v) == \E p \in DOMAIN v : v[p].t = "bigint"

\* JSON.stringify: a key whose value is undefined is left out, NaN becomes null
JSONstringify(v) ==
    [p \in {q \in DOMAIN v : v[q].t # "undefined"} |->
        CASE v[p].t = "string" -> [json |-> "string", text |-> v[p].s]
          [] v[p].t = "number" -> [json |-> "number", text |-> NumberToString(v[p].n)]
          [] OTHER -> [json |-> "null", text |-> <<"n","u","l","l">>]]

\* JSON.parse of a text whose leaves are strings, integers and null
JSONparse(j) ==
    [p \in DOMAIN j |->
        CASE j[p].json = "string" -> Str(j[p].text)
          [] j[p].json = "number" ->
                IF Head(j[p].text) = "-" THEN Num(0 - IntOfDigits(Tail(j[p].text)))
                ELSE Num(IntOfDigits(j[p].text))
          [] OTHER -> Null]

safeBase64Encode(text) == [base64 |-> text]

safeBase64Decode(header) == header.base64

\* ExactHlPayloadSchema (lines 125-133): what it accepts
ExactHlPayloadSchemaAccepts(obj) ==
    /\ IsObjectAt(obj, <<"payload", "action">>)
    /\ \/ /\ IsStringAt(obj, <<"payload", "signature">>)
          /\ Len(obj[<<"payload", "signature">>].s) >= 1
       \/ /\ IsStringAt(obj, <<"payload", "signature", "r">>)
          /\ IsStringAt(obj, <<"payload", "signature", "s">>)
          /\ IsNumberAt(obj, <<"payload", "signature", "v">>)
    /\ IsNumberAt(obj, <<"payload", "nonce">>)
    /\ obj[<<"payload", "nonce">>].n > 0

\* ExactHlPayloadSchema.parse: z.object keeps the keys of the schema only
ExactHlPayloadSchemaParse(obj) ==
    Pick(Pick(obj, <<"payload">>, {"action", "signature", "nonce"}),
         <<"payload", "signature">>, {"r", "s", "v"})

AuthorizationKeys == {"from", "to", "value", "validAfter", "validBefore", "nonce"}

ExactEvmPayloadSchemaAccepts(obj) ==
    /\ IsStringAt(obj, <<"payload", "signature">>)
    /\ \A k \in AuthorizationKeys : IsStringAt(obj, <<"payload", "authorization", k>>)

ExactEvmPayloadSchemaParse(obj) ==
    Pick(Pick(obj, <<"payload">>, {"signature", "authorization"}),
         <<"payload", "authorization">>, AuthorizationKeys)

ExactSvmPayloadSchemaAccepts(obj) == IsStringAt(obj, <<"payload", "transaction">>)

ExactSvmPayloadSchemaParse(obj) == Pick(obj, <<"payload">>, {"transaction"})

\* PaymentPayloadSchema (lines 152-161): a ZodError is thrown
PaymentPayloadSchemaThrows(obj) ==
    \/ ~(IsNumberAt(obj, <<"x402Version">>) /\ obj[<<"x402Version">>].n = 1)
    \/ ~(IsStringAt(obj, <<"scheme">>) /\ obj[<<"scheme">>].s = SchemeChars)
    \/ ~(IsStringAt(obj, <<"network">>) /\ obj[<<"network">>].s \in NetworkSchema)
    \/ ~(\/ ExactEvmPayloadSchemaAccepts(obj)
         \/ ExactSvmPayloadSchemaAccepts(obj)
         \/ ExactHlPayloadSchemaAccepts(obj))

\* PaymentPayloadSchema.parse: the keys of the envelope, and the payload as
\* parsed by the first schema of the union that accepts it
PaymentPayloadSchemaParse(obj) ==
    LET envelope == Pick(obj, <<>>, {"x402Version", "scheme", "network", "payload"})
    IN  CASE ExactEvmPayloadSchemaAccepts(envelope) -> ExactEvmPayloadSchemaParse(envelope)
          [] ExactSvmPayloadSchemaAccepts(envelope) -> ExactSvmPayloadSchemaParse(envelope)
          [] OTHER -> ExactHlPayloadSchemaParse(envelope)

\* lines 191-198: the bigint fields of the authorization as decimal strings
stringifyAuthorization(payment) ==
    [p \in DOMAIN payment |->
        IF IsPrefix(<<"payload", "authorization">>, p) /\ payment[p].t = "bigint"
        THEN Str(payment[p].s)
        ELSE payment[p]]

encodePaymentThrows(payment) ==
    \/ payment[<<"network">>].s \notin NetworkSchema
    \/ /\ payment[<<"network">>].s \in SupportedEVMNetworks
       /\ \/ ~IsObjectAt(payment, <<"payload", "authorization">>)
          \/ JSONstringifyThrows(stringifyAuthorization(payment))
    \/ /\ payment[<<"network">>].s \notin SupportedEVMNetworks
       /\ JSONstringifyThrows(payment)

encodePayment(payment) ==
    IF payment[<<"network">>].s \in SupportedEVMNetworks
    THEN safeBase64Encode(JSONstringify(stringifyAuthorization(payment)))
    ELSE safeBase64Encode(JSONstringify(payment))

decodePaymentThrows(header) ==
    LET parsed == JSONparse(safeBase64Decode(header))
    IN  \/ ~IsStringAt(parsed, <<"network">>)
        \/ parsed[<<"network">>].s \notin NetworkSchema
        \/ PaymentPayloadSchemaThrows(parsed)

decodePayment(header) == PaymentPayloadSchemaParse(JSONparse(safeBase64Decode(header)))

\* an envelope for the network of name n with payload p
Envelope(n, p) ==
    ObjectOf([x402Version |-> Num(1), scheme |-> Str(SchemeChars), network |-> Str(n)])
    @@ Under("payload", p)

SignatureValues ==
    {(<<"signature">> :> Str(<<"0","x","1">>)),
     Under("signature", ObjectOf([r |-> Str(<<"0","x","1">>), s |-> Str(<<"0","x","2">>),
                                  v |-> Num(27)]))}

\* the keys of a spotSend action (client.ts lines 41-53)
SpotSendAction(a) ==
    ObjectOf([type |-> BaseAction.type, signatureChainId |-> BaseAction.signatureChainId,
              hyperliquidChain |-> BaseAction.hyperliquidChain,
              destination |-> BaseAction.destination, token |-> BaseAction.token,
              amount |-> Str(a), time |-> BaseAction.time])

\* payloads of the Hyperliquid family, as createPaymentPayload builds them
\* (with user) and as the exchange takes them (without)
HlPayloads ==
    {Under("action", SpotSendAction(a)) @@ sig @@ (<<"nonce">> :> Num(k)) @@ u :
        a \in {<<"1">>, <<"1",".","5">>}, sig \in SignatureValues,
        k \in {TIMESTAMP, TIMESTAMP + 1},
        u \in {<<>>, (<<"user">> :> Str(PAYER_ADDRESS))}}

\* 2^53 + 1 and 10^30: integers a double cannot hold
BigValues ==
    {<<"1">>,
     <<"9","0","0","7","1","9","9","2","5","4","7","4","0","9","9","3">>,
     <<"1">> \o Rep("0", 30)}

EvmPayloads ==
    {(<<"signature">> :> Str(<<"0","x","1">>))
     @@ Under("authorization",
              ObjectOf([from |-> Str(PAYER_ADDRESS), to |-> Str(PAY_TO), value |-> Str(v),
                        validAfter |-> Str(<<"0">>), validBefore |-> Str(v),
                        nonce |-> Str(TX_HASH)])) : v \in BigValues}

SvmPayloads ==
    {(<<"transaction">> :> Str(t)) : t \in {<<"A","Q","=","=">>, <<"A","g","=","=">>}}

CodecInputs ==
    {Envelope(n, p) : n \in SupportedHLNetworkChars, p \in HlPayloads}
    \cup {Envelope(n, p) : n \in SupportedEVMNetworks, p \in EvmPayloads}
    \cup {Envelope(n, p) : n \in SupportedSVMNetworks, p \in SvmPayloads}

InitCodec ==
    /\ pc = "encode"
    /\ \E input \in CodecInputs : paymentPayload = input
    /\ paymentRequirements = BaseRequirements
    /\ payer = Undefined
    /\ exchangeResponse = NoResponse
    /\ exchangeTxHash = Undefined
    /\ userDetails = NoUserDetails
    /\ matchedHash = Undefined
    /\ txHash = Undefined
    /\ attempt = 0
    /\ requests = <<>>
    /\ result = NoResult
    /\ now = 0
    /\ decimals = Undefined
    /\ cache = EmptyCache
    /\ previous = NoPrevious
    /\ other = NoCall

\* the sender: encodePayment(paymentPayload)
EncodePayment ==
    /\ pc = "encode"
    /\ IF encodePaymentThrows(paymentPayload)
       THEN Return(Threw)
       ELSE /\ result' = [kind |-> "header", value |-> encodePayment(paymentPayload)]
            /\ pc' = "decode"
    /\ UNCHANGED <<paymentPayload, paymentRequirements, settleVars, requests, verifyVars,
                   other>>

\* the receiver: decodePayment(header)
DecodePayment ==
    /\ pc = "decode"
    /\ IF decodePaymentThrows(result.value)
       THEN Return(Threw)
       ELSE /\ result' = [kind |-> "PaymentPayload", value |-> decodePayment(result.value)]
            /\ pc' = "decoded"
    /\ UNCHANGED <<paymentPayload, paymentRequirements, settleVars, requests, verifyVars,
                   other>>

NextCodec ==
    \/ EncodePayment
    \/ DecodePayment

SpecCodec == InitCodec /\ [][NextCodec]_vars

-----------------------------------------------------------------------------
(* The facilitator router (src/unnamed/part_000, lines 453-470): verify    *)
(* and settle of the facilitator, which hand the call to the engine of the *)
(* family of paymentRequirements.network.  The engines of the other        *)
(* families are not looked into: a call handed to one of them stays at the *)
(* position "evm" or "svm".                                                *)

IsEVMNetwork(network) ==
    network \in DOMAIN NetworkChars /\ NetworkChars[network] \in SupportedEVMNetworks

IsSVMNetwork(network) ==
    network \in DOMAIN NetworkChars /\ NetworkChars[network] \in SupportedSVMNetworks

\* lines 464 and 468 with the test network
routesToHyperliquid_MainnetOnly(req) == req.network = "hyperliquid"

\* lines 464 and 468: SupportedHLNetworks.includes(paymentRequirements.network)
routesToHyperliquid(req) == req.network \in Range(SupportedHLNetworks)

\* the engine the router hands the call to
EngineOf(req) ==
    CASE IsEVMNetwork(req.network) -> "evm"
      [] IsSVMNetwork(req.network) -> "svm"
      [] routesToHyperliquid(req) -> "hyperliquid"
      [] OTHER -> "none"

\* the router's answer to a verify call for a network of no family
RouterInvalid == Invalid("invalid_network")

\* the router's answer to a settle call for a network of no family
RouterFailure(req) ==
    [kind |-> "SettleResponse",
     success |-> FALSE,
     errorReason |-> "invalid_network",
     transaction |-> Str(<<>>),
     network |-> req.network,
     payer |-> Undefined]

RouterNetworks == {"hyperliquid", "hyperliquid-testnet", "base", "solana", "bitcoin"}

\* a well-formed Hyperliquid payment under every network, against every
\* network required, with and without the decimals in the requirements
RouterInputs ==
    {<<[scheme |-> "exact", network |-> n, actionKind |-> "record", action |-> BaseAction,
        nonce |-> Num(TIMESTAMP), user |-> Str(PAYER_ADDRESS)],
       [BaseRequirements EXCEPT !.network = rn, !.decimals = d]>> :
        n \in {"hyperliquid", "hyperliquid-testnet", "base"}, rn \in RouterNetworks,
        d \in {Num(6), Undefined}}

InitRouter ==
    /\ \E input \in RouterInputs :
        \/ /\ pc = "facilitatorVerify"
           /\ paymentPayload = Fresh(input[1])
           /\ paymentRequirements = input[2]
        \/ /\ pc = "facilitatorSettle"
           /\ paymentPayload = input[1]
           /\ paymentRequirements = input[2]
    /\ payer = Undefined
    /\ exchangeResponse = NoResponse
    /\ exchangeTxHash = Undefined
    /\ userDetails = NoUserDetails
    /\ matchedHash = Undefined
    /\ txHash = Undefined
    /\ attempt = 0
    /\ requests = <<>>
    /\ result = NoResult
    /\ now = NowStart
    /\ decimals = Undefined
    /\ cache = EmptyCache
    /\ previous = NoPrevious
    /\ other = NoCall

\* verify of the facilitator
FacilitatorVerify ==
    /\ pc = "facilitatorVerify"
    /\ LET engine == EngineOf(paymentRequirements)
       IN  IF engine = "hyperliquid"
           THEN VerifyStart(paymentPayload, paymentRequirements)
           ELSE /\ pc' = IF engine = "none" THEN "rejected" ELSE engine
                /\ result' = IF engine = "none" THEN RouterInvalid ELSE NoResult
                /\ UNCHANGED <<paymentPayload, paymentRequirements, requests, decimals>>
    /\ UNCHANGED <<settleVars, now, cache, previous, other>>

\* settle of the facilitator
FacilitatorSettle ==
    /\ pc = "facilitatorSettle"
    /\ LET engine == EngineOf(paymentRequirements)
       IN  IF engine = "hyperliquid"
           THEN pc' = "settle" /\ UNCHANGED result
           ELSE /\ pc' = IF engine = "none" THEN "rejected" ELSE engine
                /\ result' = IF engine = "none" THEN RouterFailure(paymentRequirements)
                             ELSE NoResult
    /\ UNCHANGED <<paymentPayload, paymentRequirements, settleVars, requests, verifyVars,
                   other>>

NextRouter ==
    \/ FacilitatorVerify
    \/ FacilitatorSettle
    \/ TokenDetails
    \/ SettleCall
    \/ SubmitExchange
    \/ UserDetails
    \/ TxDetails

SpecRouter == InitRouter /\ [][NextRouter]_vars

-----------------------------------------------------------------------------
(* The client (schemes/exact/hyperliquid/client.ts): createPaymentPayload  *)
(* builds the payload for the requirements, and the payload is then        *)
(* verified against the same requirements.  The wallet's address is        *)
(* PAYER_ADDRESS; the parser of the request and the signing leave the      *)
(* action as it is.                                                        *)

\* x / 10n ** BigInt(k) on a non-negative BigInt
BigDivPow10(x, k) ==
    MkNumber(FALSE, IF Len(x.int) > k THEN SubSeq(x.int, 1, Len(x.int) - k) ELSE <<>>, <<>>)

\* x % 10n ** BigInt(k) on a non-negative BigInt
BigModPow10(x, k) ==
    MkNumber(FALSE, IF Len(x.int) > k THEN SubSeq(x.int, Len(x.int) - k + 1, Len(x.int))
                    ELSE x.int, <<>>)

\* BigInt.prototype.toString
BigToString(x) ==
    IF x.int = <<>> THEN <<"0">> ELSE (IF x.neg THEN <<"-">> ELSE <<>>) \o x.int

\* String.prototype.padStart(k, "0")
PadStartZero(s, k) == IF Len(s) >= k THEN s ELSE Rep("0", k - Len(s)) \o s

\* formatDecimalAmount without padStart: the zeros that lead the remainder are lost
formatDecimalAmount_NoPadStart(amount, d) ==
    IF ~IsFiniteNumber(d) \/ d.n <= 0
    THEN amount
    ELSE LET bigAmount == BigIntOfString(amount)
             whole == BigDivPow10(bigAmount, d.n)
             remainder == BigModPow10(bigAmount, d.n)
             remainderStr == StripTrailingZeros(BigToString(remainder))
         IN  IF remainder.int = <<>>
             THEN BigToString(whole)
             ELSE BigToString(whole) \o <<".">> \o remainderStr

\* lines 80-100; amount is a string of digits
formatDecimalAmount(amount, d) ==
    IF ~IsFiniteNumber(d) \/ d.n <= 0
    THEN amount
    ELSE LET bigAmount == BigIntOfString(amount)
             whole == BigDivPow10(bigAmount, d.n)
             remainder == BigModPow10(bigAmount, d.n)
             remainderStr ==
                StripTrailingZeros(PadStartZero(BigToString(remainder), d.n))
         IN  IF remainder.int = <<>>
             THEN BigToString(whole)
             ELSE BigToString(whole) \o <<".">> \o remainderStr

\* the name the network reports for a token
TokenName(tokenId) == <<"U","S","D","C">>

\* lines 116-118: the token id resolveHyperliquidDecimals looks up
clientTokenId(req) ==
    IF StartsWith(req.asset, <<"0","x">>) THEN Str(req.asset) ELSE Undefined

\* resolveHyperliquidDecimals makes a request
decimalsLookedUp(req) == TypeOf(req.decimals) # "number" /\ Truthy(clientTokenId(req))

\* lines 110-131; found: the request, if one is made, is answered
resolveHyperliquidDecimals(req, found) ==
    IF TypeOf(req.decimals) = "number" THEN req.decimals
    ELSE IF ~Truthy(clientTokenId(req)) THEN Undefined
         ELSE IF found THEN Num(TokenWeiDecimals(req.asset)) ELSE Undefined

\* resolveTokenString asks for the token's info (lines 149-150)
symbolAsked(req) ==
    /\ ~Includes(req.asset, <<":">>)
    /\ ~(TypeOf(req.tokenSymbol) = "string" /\ Truthy(req.tokenSymbol))

\* lines 133-159; found: the token's info is cached or the request for it is answered
resolveTokenString(req, found) ==
    IF Includes(req.asset, <<":">>) THEN req.asset
    ELSE IF TypeOf(req.tokenSymbol) = "string" /\ Truthy(req.tokenSymbol)
         THEN req.tokenSymbol.s \o <<":">> \o req.asset
         ELSE IF found THEN TokenName(req.asset) \o <<":">> \o req.asset
              ELSE <<"T","O","K","E","N">> \o <<":">> \o req.asset

\* lines 66-73 of shared/hyperliquid/index.ts
getHyperliquidChain(network) ==
    IF network = "hyperliquid-testnet" THEN <<"T","e","s","t","n","e","t">>
    ELSE <<"M","a","i","n","n","e","t">>

\* the payload of lines 39-77, built at time clock
BuiltPayload(req, d, token, clock) ==
    [scheme |-> req.scheme,
     network |-> req.network,
     actionKind |-> "record",
     action |-> [BaseAction EXCEPT
                    !.hyperliquidChain = Str(getHyperliquidChain(req.network)),
                    !.destination = Str(req.payTo),
                    !.token = Str(token),
                    !.amount = Str(formatDecimalAmount(req.maxAmountRequired, d)),
                    !.time = Num(clock)],
     nonce |-> Num(clock),
     user |-> Str(PAYER_ADDRESS)]

\* the token id of USDC alone
USDC_ID == SubSeq(USDC, 6, Len(USDC))

\* requirements of every form: the asset with its symbol or bare, with or
\* without the decimals and the symbol of the token in extra
ClientRequirements ==
    {[BaseRequirements EXCEPT !.network = n, !.asset = a, !.maxAmountRequired = m,
                              !.decimals = d, !.tokenSymbol = s] :
        n \in Range(SupportedHLNetworks),
        a \in {USDC, USDC_ID, BARE_TOKEN},
        m \in {<<"1","2","3","4">>, <<"1","2","3","0">>, <<"1","0","0","0","0","0","0">>,
               <<"5">>},
        d \in {Undefined, Num(3), Num(6)},
        s \in {Undefined, Str(<<"U","S","D","C">>)}}

InitClient ==
    /\ pc = "createPaymentPayload"
    /\ paymentPayload = NoPayload
    /\ paymentRequirements \in
            {req \in ClientRequirements :
                TypeOf(req.decimals) = "number" =>
                    req.decimals.n = TokenWeiDecimals(extractHyperliquidTokenId(req.asset).s)}
    /\ payer = Undefined
    /\ exchangeResponse = NoResponse
    /\ exchangeTxHash = Undefined
    /\ userDetails = NoUserDetails
    /\ matchedHash = Undefined
    /\ txHash = Undefined
    /\ attempt = 0
    /\ requests = <<>>
    /\ result = NoResult
    /\ now = NowStart
    /\ decimals = Undefined
    /\ cache = EmptyCache
    /\ previous = NoPrevious
    /\ other = NoCall

\* createPaymentPayload(wallet, x402Version, paymentRequirements), with the
\* answers to its requests for the token's info: the second request is made
\* only if the first was not made or not answered (index.ts lines 116-120)
CreatePaymentPayload ==
    /\ pc = "createPaymentPayload"
    /\ LET req == paymentRequirements
       IN  \E first \in BOOLEAN, second \in BOOLEAN :
            LET firstAsked == decimalsLookedUp(req)
                secondAsked == symbolAsked(req) /\ ~(firstAsked /\ first)
                d == resolveHyperliquidDecimals(req, first)
                token == resolveTokenString(req, (firstAsked /\ first) \/ second)
                kind(found) == IF found THEN "json" ELSE "throws"
            IN  /\ decimals' = d
                /\ requests' =
                      (IF firstAsked THEN <<Request("tokenDetails", kind(first), <<>>)>>
                       ELSE <<>>)
                      \o (IF secondAsked THEN <<Request("tokenDetails", kind(second), <<>>)>>
                          ELSE <<>>)
                /\ paymentPayload' = BuiltPayload(req, d, token, now)
    /\ pc' = "created"
    /\ UNCHANGED <<paymentRequirements, settleVars, result, now, cache, previous, other>>

\* the delays between the making of the payload and its verification
Delays == {0, 1, TTL_MS}

\* the payload reaches the facilitator
Deliver ==
    /\ pc = "created"
    /\ \E delay \in Delays : now' = now + delay
    /\ pc' = "delivered"
    /\ UNCHANGED <<paymentPayload, paymentRequirements, settleVars, requests, result,
                   decimals, cache, previous, other>>

\* verify(client, payload, paymentRequirements) on the payload delivered
VerifyDelivered ==
    /\ pc = "delivered"
    /\ VerifyStart(paymentPayload, paymentRequirements)
    /\ UNCHANGED <<settleVars, now, cache, previous, other>>

NextClient ==
    \/ CreatePaymentPayload
    \/ Deliver
    \/ VerifyDelivered
    \/ TokenDetails

SpecClient == InitClient /\ [][NextClient]_vars

-----------------------------------------------------------------------------
(* formatDecimalAmount of the client followed by decimalToAtomic of the     *)
(* verifier, on every atomic amount and number of decimals of the bounds    *)

\* non-negative integers as strings of digits, zeros in front included
AtomicAmounts == UNION {[1..k -> {"0", "1", "5", "9"}] : k \in 1..MaxAmountLen}

RoundTripDecimals == {0, 1, 2, 3, 6}

InitRoundTrip ==
    /\ pc = "formatDecimalAmount"
    /\ paymentPayload = NoPayload
    /\ \E a \in AtomicAmounts : \E d \in RoundTripDecimals :
          paymentRequirements = [BaseRequirements EXCEPT !.maxAmountRequired = a,
                                                         !.decimals = Num(d)]
    /\ payer = Undefined
    /\ exchangeResponse = NoResponse
    /\ exchangeTxHash = Undefined
    /\ userDetails = NoUserDetails
    /\ matchedHash = Undefined
    /\ txHash = Undefined
    /\ attempt = 0
    /\ requests = <<>>
    /\ result = NoResult
    /\ now = NowStart
    /\ decimals = Undefined
    /\ cache = EmptyCache
    /\ previous = NoPrevious
    /\ other = NoCall

\* client.ts line 48: the amount of the action
FormatAmount ==
    /\ pc = "formatDecimalAmount"
    /\ paymentPayload' =
            [scheme |-> "exact", network |-> paymentRequirements.network,
             actionKind |-> "record",
             action |-> [BaseAction EXCEPT
                            !.amount = Str(formatDecimalAmount(
                                               paymentRequirements.maxAmountRequired,
                                               paymentRequirements.decimals)),
                            !.time = Num(now)],
             nonce |-> Num(now), user |-> Str(PAYER_ADDRESS)]
    /\ pc' = "formatted"
    /\ UNCHANGED <<paymentRequirements, settleVars, requests, result, verifyVars, other>>

\* verify on the payload that carries the formatted amount
VerifyFormatted ==
    /\ pc = "formatted"
    /\ VerifyStart(paymentPayload, paymentRequirements)
    /\ UNCHANGED <<settleVars, now, cache, previous, other>>

NextRoundTrip ==
    \/ FormatAmount
    \/ VerifyFormatted

SpecRoundTrip == InitRoundTrip /\ [][NextRoundTrip]_vars

-----------------------------------------------------------------------------
(* Properties *)

\* the requests of the call sent to one endpoint
RequestsTo(endpoint) == {i \in 1..Len(requests) : requests[i].to = endpoint}

PostCount == Cardinality(RequestsTo("exchange"))

DetailCount == Cardinality(RequestsTo("txDetails"))

HistoryCount == Cardinality(RequestsTo("userDetails"))

Returned == pc = "returned"

Failed(reason) == Returned /\ ~result.success /\ result.errorReason = reason

\* C1: in one settle call the exchange endpoint is POSTed at most once,
\* whatever the submission, the history lookup and the confirmation poll do
C1_SubmitAtMostOnce == PostCount <= 1

\* a call that went through a failing confirmation poll after its one POST
C1_Witness ==
    /\ Failed("hl_tx_unconfirmed")
    /\ PostCount = 1
    /\ DetailCount = CONFIRMATION_RETRIES

\* C2: a payload that verify rejects at its network/scheme guard or at its
\* payload-shape guard is rejected by settle with the same reason, before
\* anything is sent to the exchange
C2_SettleRejectsAsVerify ==
    LET reason == verifyEarlyReason(paymentPayload, paymentRequirements)
    IN  (pc # "settle"
         /\ reason \in {"invalid_exact_hl_network", "invalid_exact_hl_payload"})
        => Failed(reason) /\ requests = <<>>

\* the transactions of the history settle read
HistoryTxs == extractUserTransactions(userDetails)

NoHistoryMatch ==
    \A i \in 1..Len(HistoryTxs) :
        ~transactionMatchesPayment(HistoryTxs[i], paymentPayload, paymentRequirements)

\* C3: with a payer known and no transaction of the history matching, settle
\* fails with hl_tx_not_found, whatever id the acknowledgment carried, and
\* reports the acknowledgment's id (requirements.payTo when it carried none)
C3_UnmatchedIsNotFound ==
    (Returned /\ Truthy(payer) /\ HistoryCount = 1 /\ NoHistoryMatch)
    => /\ Failed("hl_tx_not_found")
       /\ result.transaction =
              Coalesce(exchangeTxHash, Str(paymentRequirements.payTo))
       /\ DetailCount = 0

\* the acknowledgment carried a well-formed id, the history holds only a
\* transfer to somebody else
C3_Witness ==
    /\ Failed("hl_tx_not_found")
    /\ Truthy(payer)
    /\ exchangeTxHash = Str(TX_HASH)
    /\ Len(HistoryTxs) = 1
    /\ HistoryTxs[1].action.destination = Str(OTHER_ADDRESS)
    /\ result.transaction = Str(TX_HASH)

\* what each check of verify finds wrong, stated on the inputs
ShapeViolated ==
    \/ paymentPayload.actionKind # "record"
    \/ \E v \in {paymentPayload.action.destination, paymentPayload.action.token,
                 paymentPayload.action.amount} : v.t # "string" \/ v.s = <<>>

RecipientViolated ==
    ToLowerCase(paymentPayload.action.destination.s)
        # ToLowerCase(paymentRequirements.payTo)

AssetViolated == paymentPayload.action.token.s # paymentRequirements.asset

AmountViolated ==
    ~ensureAmountMeetsRequirement(paymentPayload.action.amount.s,
                                  paymentRequirements.maxAmountRequired, decimals)

ExpiryViolated ==
    ~withinTtl(paymentPayload.action.time, paymentRequirements.maxTimeoutSeconds, now)

\* the reason of the earliest violated check, "" when none is violated
FirstViolation ==
    IF networkGuardFails(paymentPayload, paymentRequirements)
    THEN "invalid_exact_hl_network"
    ELSE IF ShapeViolated THEN "invalid_exact_hl_payload"
    ELSE IF RecipientViolated THEN "invalid_exact_hl_payload_recipient_mismatch"
    ELSE IF AssetViolated THEN "invalid_exact_hl_payload_asset_mismatch"
    ELSE IF AmountViolated THEN "invalid_exact_hl_payload_amount_mismatch"
    ELSE IF ExpiryViolated THEN "payment_expired"
    ELSE ""

\* C4: verify checks network/scheme, shape, recipient, asset, amount and
\* expiry in this order, and the earliest violated check alone gives
\* invalidReason
C4_FirstFailingCheckWins ==
    pc = "verified"
    => /\ result.invalidReason = FirstViolation
       /\ result.isValid <=> FirstViolation = ""

\* recipient, asset and amount are violated together: recipient_mismatch
C4_Witness ==
    /\ pc = "verified"
    /\ ~networkGuardFails(paymentPayload, paymentRequirements)
    /\ ~ShapeViolated
    /\ RecipientViolated /\ AssetViolated /\ AmountViolated /\ ExpiryViolated
    /\ result.invalidReason = "invalid_exact_hl_payload_recipient_mismatch"

\* the amount of the claim: the fraction cut or zero-padded to exactly d
\* digits, appended to the whole part, read as one integer
ConcatenatedAtomic(amount, d) ==
    LET parts == Split(amount, ".")
        fraction == IF Len(parts) > 1 THEN parts[2] ELSE <<>>
        digits == [i \in 1..d |-> IF i <= Len(fraction) THEN fraction[i] ELSE "0"]
    IN  MkNumber(FALSE, parts[1] \o digits, <<>>)

\* digits, optionally followed by "." and digits
PlainDecimal(amount) ==
    \E k \in 1..Len(amount) :
        /\ AllDigits(SubSeq(amount, 1, k))
        /\ \/ k = Len(amount)
           \/ /\ k + 1 < Len(amount)
              /\ amount[k + 1] = "."
              /\ AllDigits(SubSeq(amount, k + 2, Len(amount)))

MeetsRequirement(amount, d) ==
    /\ PlainDecimal(amount)
    /\ NumberGE(ConcatenatedAtomic(amount, d),
                MkNumber(FALSE, paymentRequirements.maxAmountRequired, <<>>))

DecimalsKnown ==
    /\ paymentRequirements.decimals.t = "number"
    /\ paymentRequirements.decimals.n >= 0

\* C5 as stated: with decimals d known, verify passes the amount check
\* exactly when the payload amount is a plain non-negative decimal string
\* whose conversion is at least maxAmountRequired, and rejects every other
\* amount with amount_mismatch
C5_AmountCheckAsStated ==
    (pc = "verified" /\ DecimalsKnown)
    => /\ result.isValid <=>
              MeetsRequirement(paymentPayload.action.amount.s,
                               paymentRequirements.decimals.n)
       /\ ~result.isValid =>
              result.invalidReason = "invalid_exact_hl_payload_amount_mismatch"

\* C5 amended: the same, of the payload amount with the blanks around it removed
C5_AmountCheckTrimmed ==
    (pc = "verified" /\ DecimalsKnown)
    => /\ result.isValid <=>
              MeetsRequirement(Trim(paymentPayload.action.amount.s),
                               paymentRequirements.decimals.n)
       /\ ~result.isValid =>
              result.invalidReason = "invalid_exact_hl_payload_amount_mismatch"

\* "0.999999" against "1000000" with 6 decimals is rejected
C5_Witness ==
    /\ pc = "verified"
    /\ paymentRequirements.decimals = Num(6)
    /\ paymentRequirements.maxAmountRequired = <<"1","0","0","0","0","0","0">>
    /\ paymentPayload.action.amount = Str(<<"0",".","9","9","9","9","9","9">>)
    /\ result.invalidReason = "invalid_exact_hl_payload_amount_mismatch"

\* the checks before the freshness check all pass
ReachesFreshnessCheck ==
    /\ pc = "verified"
    /\ ~networkGuardFails(paymentPayload, paymentRequirements)
    /\ ~ShapeViolated /\ ~RecipientViolated /\ ~AssetViolated /\ ~AmountViolated

IsFresh ==
    /\ paymentPayload.action.time.t = "number"
    /\ paymentPayload.action.time.n + paymentRequirements.maxTimeoutSeconds * 1000 >= now

\* C6: the freshness check passes exactly when action.time is a finite number
\* and action.time + maxTimeoutSeconds * 1000 is at or after the clock;
\* otherwise verify answers payment_expired
C6_FreshnessBoundary ==
    ReachesFreshnessCheck
    => /\ result.isValid <=> IsFresh
       /\ ~IsFresh => result.invalidReason = "payment_expired"

\* a payload accepted in the last millisecond of its 300 seconds
C6_Witness ==
    /\ ReachesFreshnessCheck
    /\ paymentRequirements.maxTimeoutSeconds = 300
    /\ paymentPayload.action.time.t = "number"
    /\ paymentPayload.action.time.n + 300000 = now
    /\ result.isValid

\* the payload has the shape of ExactHlPayloadSchema: action is a record
EnvelopeShape == paymentPayload.actionKind = "record"

\* C7: for a payload of the envelope shape and whatever the endpoints do,
\* settle returns a SettleResponse and verify a VerifyResponse; no fault
\* leaves either
C7_NeverThrows ==
    /\ EnvelopeShape => pc # "threw"
    /\ Returned => result.kind = "SettleResponse"
    /\ pc = "verified" => result.kind = "VerifyResponse"

\* the POST itself failed in transport, and settle still answered
C7_Witness ==
    /\ Failed("hl_exchange_error")
    /\ requests = <<Request("exchange", "fetch_throws", <<>>)>>

\* the message holds "not found" in some letter case
SaysNotFound(message) ==
    \E i \in 0..(Len(message) - Len(NotFoundSignal)) :
        \A j \in 1..Len(NotFoundSignal) :
            \/ message[i + j] = NotFoundSignal[j]
            \/ /\ message[i + j] \in UpperSet
               /\ LowerOf[message[i + j]] = NotFoundSignal[j]

\* C8: a detail lookup failing with "not found" (in any letter case) is the
\* last request of the call, and settle answers hl_tx_not_found with the
\* resolved id
C8_NotFoundEndsPoll ==
    \A i \in RequestsTo("txDetails") :
        (requests[i].kind = "throws" /\ SaysNotFound(requests[i].message))
        => /\ i = Len(requests)
           /\ Failed("hl_tx_not_found")
           /\ result.transaction = txHash

\* the second lookup fails with "Transaction Not Found"
C8_Witness ==
    /\ Failed("hl_tx_not_found")
    /\ DetailCount = 2
    /\ requests[Len(requests)].to = "txDetails"
    /\ requests[Len(requests)].message # ToLowerCase(requests[Len(requests)].message)
    /\ SaysNotFound(requests[Len(requests)].message)

AllDetailsFailOtherwise ==
    \A i \in RequestsTo("txDetails") :
        requests[i].kind = "throws" /\ ~SaysNotFound(requests[i].message)

\* C9: never more than CONFIRMATION_RETRIES detail lookups; when all of them
\* fail with an error that does not say "not found", settle answers after
\* exactly that many, with hl_tx_unconfirmed
C9_RetryBudget ==
    /\ DetailCount <= CONFIRMATION_RETRIES
    /\ (AllDetailsFailOtherwise /\ DetailCount > 0)
       => /\ Returned => (DetailCount = CONFIRMATION_RETRIES /\ Failed("hl_tx_unconfirmed"))
          /\ DetailCount = CONFIRMATION_RETRIES => Failed("hl_tx_unconfirmed")

C9_Witness ==
    /\ Failed("hl_tx_unconfirmed")
    /\ AllDetailsFailOtherwise
    /\ DetailCount = 3
    /\ attempt = 3

\* C10: a detail lookup that returns no transaction is not a confirmation:
\* settle does not answer success after it
C10_NoTxIsNoConfirmation ==
    \A i \in RequestsTo("txDetails") :
        requests[i].kind = "no_tx" => ~(Returned /\ result.success)

\* the last request of the call
LastRequest == requests[Len(requests)]

\* "0x" followed by 64 hexadecimal digits
IsTransactionId(v) ==
    /\ v.t = "string"
    /\ Len(v.s) = 66
    /\ v.s[1] = "0" /\ v.s[2] = "x"
    /\ \A i \in 3..66 : IsHexDigit(v.s[i])

\* C11: settle returns success only after a detail lookup for the resolved id
\* returned without error; the response carries that id, a 0x-prefixed hash of
\* 64 hex digits, requirements.network, the payer and no errorReason
C11_SuccessOnlyAfterConfirmation ==
    (Returned /\ result.success)
    => /\ requests # <<>>
       /\ LastRequest.to = "txDetails"
       /\ LastRequest.kind # "throws"
       /\ result.transaction = txHash
       /\ IsTransactionId(result.transaction)
       /\ result.network = paymentRequirements.network
       /\ result.payer = payer
       /\ result.errorReason = ""

\* the test case "settles successfully when exchange and confirmation succeed"
C11_Witness ==
    /\ Returned /\ result.success
    /\ LastRequest = Request("txDetails", "tx", <<>>)
    /\ result.transaction = Str(TX_HASH)
    /\ result.payer = Str(PAYER_ADDRESS)
    /\ result.network = "hyperliquid"

\* the submission was acknowledged with status "ok"
Acknowledged == exchangeResponse # NoResponse

\* the id of the acknowledgment: response.txHash, then txHash, then hash
AckId ==
    IF ~IsNullish(exchangeResponse.responseTxHash) THEN exchangeResponse.responseTxHash
    ELSE IF ~IsNullish(exchangeResponse.txHash) THEN exchangeResponse.txHash
    ELSE exchangeResponse.hash

\* the well-formed ids of the history entries that match the payment
MatchingIds ==
    {HistoryTxs[i].hash : i \in {j \in 1..Len(HistoryTxs) :
        /\ transactionMatchesPayment(HistoryTxs[j], paymentPayload, paymentRequirements)
        /\ IsTransactionId(HistoryTxs[j].hash)}}

FoundInHistory == HistoryCount = 1 /\ MatchingIds # {}

\* C12: the id settle confirms is the matched-history id when one is found,
\* otherwise the acknowledgment's id (response.txHash, then txHash, then hash);
\* when neither gives an id settle fails with hl_tx_not_found without a detail
\* lookup; without a payer no history query is made and the acknowledgment's
\* id alone is used
C12_ResolvedId ==
    (Acknowledged /\ pc \in {"txDetails", "returned"})
    => LET ids == MatchingIds
           found == HistoryCount = 1 /\ ids # {}
           details == DetailCount
       IN  /\ HistoryCount = (IF Truthy(payer) THEN 1 ELSE 0)
           /\ (pc = "txDetails" \/ details > 0)
              => /\ found => txHash \in ids
                 /\ ~found => txHash = AckId
           /\ (Returned /\ (found \/ (~Truthy(payer) /\ IsTransactionId(AckId))))
              => details > 0
           /\ (Returned /\ ~found /\ ~IsTransactionId(AckId))
              => Failed("hl_tx_not_found") /\ details = 0

\* the acknowledgment carried no id, the history holds the payment
C12_Witness ==
    /\ Returned /\ result.success
    /\ Acknowledged /\ IsNullish(AckId)
    /\ FoundInHistory
    /\ result.transaction = Str(TX_HASH)

\* a POST that the exchange acknowledged with status "ok"
ExchangeOk(r) == r.to = "exchange" /\ r.kind = "json" /\ r.message = <<"o","k">>

\* a request that ended its step in failure
StepFailed(r) ==
    \/ r.to = "exchange" /\ ~ExchangeOk(r)
    \/ r.to = "userDetails" /\ r.kind = "throws"

\* C13: the pipeline is strictly sequential: the history query is issued only
\* after the submission was acknowledged with status "ok", a detail lookup only
\* after the history step has finished and an id has been resolved, and no
\* request is issued after a step has failed
C13_SequentialPipeline ==
    \A i \in 1..Len(requests) :
        /\ requests[i].to \in {"exchange", "userDetails", "txDetails"}
        /\ requests[i].to = "exchange" => i = 1
        /\ requests[i].to = "userDetails"
           => /\ i = 2
              /\ ExchangeOk(requests[1])
        /\ requests[i].to = "txDetails"
           => /\ i >= 2
              /\ ExchangeOk(requests[1])
              /\ Truthy(payer) => (i >= 3 /\ requests[2] = Request("userDetails", "json", <<>>))
              /\ \A j \in 3..(i - 1) : requests[j].to = "txDetails"
              /\ IsTransactionId(txHash)
        /\ StepFailed(requests[i]) => (i = Len(requests) /\ Returned)

\* submit, locate in history, confirm
C13_Witness ==
    /\ Returned /\ result.success
    /\ Len(requests) = 3
    /\ ExchangeOk(requests[1])
    /\ requests[2] = Request("userDetails", "json", <<>>)
    /\ requests[3] = Request("txDetails", "tx", <<>>)

\* C14: a submission answered with a non-success HTTP status, a body that is
\* not JSON or a JSON body whose status is not "ok" makes settle return
\* hl_exchange_error, with neither a history query nor a detail lookup
C14_ExchangeError ==
    \A i \in RequestsTo("exchange") :
        (\/ requests[i].kind \in {"http_error", "body_not_json"}
         \/ requests[i].kind = "json" /\ requests[i].message # <<"o","k">>)
        => /\ Failed("hl_exchange_error")
           /\ Len(requests) = 1

\* HTTP 2xx with a JSON body whose status is "err"
C14_Witness ==
    /\ Failed("hl_exchange_error")
    /\ requests = <<Request("exchange", "json", <<"e","r","r">>)>>

\* a request that raised an exception
Thrown(r) == r.kind \in {"fetch_throws", "throws"}

PastShape ==
    /\ pc = "verified"
    /\ ~networkGuardFails(paymentPayload, paymentRequirements)
    /\ ~ShapeViolated

\* C16: the token is compared with requirements.asset by exact string
\* equality, so a token differing only in letter case is an asset_mismatch,
\* whereas the destination is compared with payTo ignoring letter case
C16_ExactAssetCompare ==
    PastShape
    => /\ result.invalidReason = "invalid_exact_hl_payload_recipient_mismatch"
              <=> RecipientViolated
       /\ ~RecipientViolated
          => (result.invalidReason = "invalid_exact_hl_payload_asset_mismatch"
                  <=> paymentPayload.action.token.s # paymentRequirements.asset)

\* destination and token both differ from the requirements in letter case only
C16_Witness ==
    /\ PastShape
    /\ paymentPayload.action.destination = Str(PAY_TO_UPPER)
    /\ paymentPayload.action.token = Str(USDC_UPPER)
    /\ paymentRequirements.asset = USDC
    /\ result.invalidReason = "invalid_exact_hl_payload_asset_mismatch"

\* verify returned and its network, shape, recipient and asset checks passed
PastAsset == PastShape /\ ~RecipientViolated /\ ~AssetViolated

\* typeof requirements.extra.decimals === "number"
DecimalsProvided == paymentRequirements.decimals.t \in {"number", "nonfinite"}

\* the asset is a token id "0x..." without a SYMBOL: prefix
BareHexAsset ==
    /\ ":" \notin Range(paymentRequirements.asset)
    /\ StartsWith(paymentRequirements.asset, <<"0","x">>)

\* the asset is "SYMBOL:tokenId"
PrefixedAsset == Cardinality(SepPositions(paymentRequirements.asset, ":")) = 1

\* the verdict of the amount check when it works on d decimals
AmountVerdictFor(d) ==
    result.invalidReason = "invalid_exact_hl_payload_amount_mismatch"
        <=> ~MeetsRequirement(Trim(paymentPayload.action.amount.s), d)

\* the call resolved its decimals from the token info of tokenId: by one
\* external request, or from the entry an earlier request left in the cache
ResolvedFromTokenInfo(tokenId) ==
    LET key == <<paymentRequirements.network, ToLowerCase(tokenId)>>
    IN  /\ Len(requests) <= 1
        /\ requests = <<>>
           => (key \in DOMAIN cache /\ decimals = cache[key].decimals)
        /\ requests = <<Request("tokenDetails", "json", <<>>)>>
           => decimals = Num(TokenWeiDecimals(tokenId))
        /\ requests = <<Request("tokenDetails", "throws", <<>>)>>
           => decimals = Undefined
        /\ decimals.t = "number" => AmountVerdictFor(decimals.n)

\* C17: extra.decimals, when a number, is used and no token-info lookup is
\* made; when it is absent and the asset is a bare hex token id, the token
\* info is looked up once and its decimals are used for the amount check
C17_DecimalsResolution ==
    PastAsset
    => /\ DecimalsProvided
          => /\ requests = <<>>
             /\ decimals = paymentRequirements.decimals
             /\ (decimals.t = "number" /\ decimals.n >= 0) => AmountVerdictFor(decimals.n)
       /\ (~DecimalsProvided /\ BareHexAsset)
          => ResolvedFromTokenInfo(paymentRequirements.asset)

\* asset 0x..., maxAmountRequired "1234", fetched decimals 3, amount "1.234"
C17_Witness ==
    /\ PastAsset
    /\ paymentRequirements.asset = BARE_TOKEN
    /\ paymentRequirements.decimals = Undefined
    /\ paymentRequirements.maxAmountRequired = <<"1","2","3","4">>
    /\ paymentPayload.action.amount = Str(<<"1",".","2","3","4">>)
    /\ requests = <<Request("tokenDetails", "json", <<>>)>>
    /\ decimals = Num(3)
    /\ result.isValid

RawAmountVerdict ==
    result.invalidReason = "invalid_exact_hl_payload_amount_mismatch"
        <=> ~NumberGE(NumberOfString(paymentPayload.action.amount.s),
                      NumberOfString(paymentRequirements.maxAmountRequired))

ExpectedPayer ==
    IF paymentPayload.user.t = "string" THEN paymentPayload.user
    ELSE IF paymentPayload.action.user.t = "string" THEN paymentPayload.action.user
    ELSE Undefined

\* C19: an accepting response reports payload.user when that is a string,
\* otherwise action.user when that is a string, otherwise no payer; a
\* response with a reason is never valid
C19_PayerOfAcceptedPayload ==
    pc = "verified"
    => /\ result.isValid => result.payer = ExpectedPayer
       /\ result.isValid <=> result.invalidReason = ""

\* both fields are present: payload.user wins
C19_Witness ==
    /\ pc = "verified"
    /\ result.isValid
    /\ paymentPayload.user = Str(PAYER_ADDRESS)
    /\ paymentPayload.action.user = Str(ACTION_USER)
    /\ result.payer = Str(PAYER_ADDRESS)

\* the call before this one ran at the same clock value and got the same
\* token info (this call asked the network and got the same answer, or was
\* served the stored answer)
RepeatedAlike ==
    /\ pc = "verified"
    /\ previous # NoPrevious
    /\ previous.now = now
    /\ (requests = <<>> \/ requests = previous.requests)

\* C20: verify never posts to the exchange, never changes the payload, the
\* requirements or the state of a settlement, and a call repeated on the same
\* payload and requirements at the same clock value with the same lookup
\* result returns the same response
C20_VerifyIsPure ==
    /\ [](RequestsTo("exchange") = {} /\ (RepeatedAlike => result = previous.result))
    /\ [][/\ settleVars' = settleVars
          /\ pc # "idle" => /\ paymentPayload' = paymentPayload
                            /\ paymentRequirements' = paymentRequirements]_vars

\* the first call asked the network for the token info, the repeated call was
\* served from the cache and accepted the payload again
C20_Witness ==
    /\ RepeatedAlike
    /\ previous.requests = <<Request("tokenDetails", "json", <<>>)>>
    /\ requests = <<>>
    /\ result.isValid
    /\ result = previous.result

\* the transaction a response of settle is to carry: the id it polled, else
\* the id of the acknowledgment, else requirements.payTo
ExpectedTransaction ==
    IF DetailCount > 0 THEN txHash
    ELSE IF Acknowledged /\ ~IsNullish(AckId) THEN AckId
         ELSE Str(paymentRequirements.payTo)

\* C21: every response of settle carries a transaction string (the resolved
\* id, else the acknowledgment's id, else the fallback value) and the network
\* of the requirements; a failure response carries an errorReason
C21_ResponseAlwaysPopulated ==
    Returned
    => /\ TypeOf(result.transaction) = "string"
       /\ result.transaction = ExpectedTransaction
       /\ result.network = paymentRequirements.network
       /\ ~result.success => result.errorReason # ""

\* the exchange could not be reached: the response falls back to payTo
C21_Witness ==
    /\ Failed("hl_exchange_error")
    /\ PostCount = 1
    /\ result.transaction = Str(PAY_TO)
    /\ result.network = paymentRequirements.network

\* the places of the history whose entry matches the payment and carries a
\* well-formed id
MatchingPlaces ==
    {j \in 1..Len(HistoryTxs) :
        /\ transactionMatchesPayment(HistoryTxs[j], paymentPayload, paymentRequirements)
        /\ IsTransactionId(HistoryTxs[j].hash)}

ToAtomicUnits(x, d) ==
    IF x.nan THEN x
    ELSE LET frac == PadEndZero(x.frac, d)
         IN  MkNumber(x.neg, x.int \o SubSeq(frac, 1, d), SubSeq(frac, d + 1, Len(frac)))

\* the two amounts denote the same quantity, in the same representation or
\* one in decimal and the other in atomic units
SameQuantity(txAmount, payloadAmount, d) ==
    LET x == coerceAmountToNumber(txAmount)
        y == coerceAmountToNumber(payloadAmount)
    IN  /\ ~x.nan /\ ~y.nan
        /\ (x = y \/ x = ToAtomicUnits(y, d) \/ y = ToAtomicUnits(x, d))

\* the entry differs from the payment in nothing but, possibly, its amount
MatchesButForAmount(tx) ==
    transactionMatchesPayment(
        [tx EXCEPT !.action.amount = paymentPayload.action.amount],
        paymentPayload, paymentRequirements)

\* C23: a history entry whose amount denotes the quantity of the payload's
\* amount, in the same or in the other representation (atomic 1000000 against
\* decimal "1" with 6 decimals, "1.0" against "1"), matches on amount
C23_AmountDriftTolerated ==
    (HistoryCount = 1 /\ pc \in {"txDetails", "returned"}
        /\ paymentRequirements.decimals.t = "number")
    => \A j \in 1..Len(HistoryTxs) :
        (/\ SameQuantity(getTxAction(HistoryTxs[j]).amount, paymentPayload.action.amount,
                         paymentRequirements.decimals.n)
         /\ MatchesButForAmount(HistoryTxs[j]))
        => transactionMatchesPayment(HistoryTxs[j], paymentPayload, paymentRequirements)

\* the stored infos for a network and a token id, compared ignoring case
StoredIn(c, network, tokenId) ==
    {c[k] : k \in {key \in DOMAIN c :
        key[1] = network /\ ToLowerCase(key[2]) = ToLowerCase(tokenId)}}

StoredFor(network, tokenId) == StoredIn(cache, network, tokenId)

\* the call in progress has to resolve the decimals of a token id
NeedsTokenInfo ==
    /\ verifyEarlyReason(paymentPayload, paymentRequirements) = ""
    /\ ~IsNullish(lookupTokenId(paymentRequirements))

IsDetailLookup(r) == r.to = "txDetails"

\* what the confirmation poll of id hash returns for the outcomes of its
\* lookups, in order; NoResult when the poll is not over after them
PollResponse(pp, req, hash, who, lookups) ==
    LET n == Len(lookups)
        retries(r) == r.kind = "throws" /\ ~SaysNotFound(r.message)
    IN  IF n = 0 \/ n > CONFIRMATION_RETRIES \/ \E i \in 1..(n - 1) : ~retries(lookups[i])
        THEN NoResult
        ELSE IF lookups[n].kind # "throws" THEN successResponse(req, hash, who)
        ELSE IF SaysNotFound(lookups[n].message)
             THEN failureResponse("hl_tx_not_found", req, pp, hash, who)
        ELSE IF n = CONFIRMATION_RETRIES
             THEN failureResponse("hl_tx_unconfirmed", req, pp, hash, who)
             ELSE NoResult

\* the response of settle run alone on the payload and requirements of call
\* c, given the answers c received to its own requests
SoloResponse(c) ==
    LET pp == c.paymentPayload
        req == c.paymentRequirements
        who == settleExtractPayer(pp)
        ack == extractExchangeTxHash(c.exchangeResponse)
        matched == IF Truthy(who)
                   THEN findMatchingTransactionHash(c.userDetails, pp, req)
                   ELSE Undefined
        hash == Coalesce(matched, ack)
    IN  IF networkGuardFails(pp, req)
        THEN failureResponse("invalid_exact_hl_network", req, pp, Undefined, Undefined)
        ELSE IF actionGuardFails(pp)
        THEN failureResponse("invalid_exact_hl_payload", req, pp, Undefined, Undefined)
        ELSE IF c.requests = <<>> THEN NoResult
        ELSE IF ~ExchangeOk(c.requests[1])
        THEN failureResponse("hl_exchange_error", req, pp, Undefined, Undefined)
        ELSE IF (Truthy(who) /\ ~Truthy(matched)) \/ ~IsTransactionId(hash)
        THEN failureResponse("hl_tx_not_found", req, pp, ack, who)
        ELSE PollResponse(pp, req, hash, who, SelectSeq(c.requests, IsDetailLookup))

\* C25: two settle calls for different payloads, interleaved at every
\* external request, each return the response they return when run alone on
\* the answers they received: no call reads or writes what the other keeps
C25_ConcurrentCallsIndependent ==
    /\ pc = "returned" => result = SoloResponse(CallState)
    /\ other.pc = "returned" => other.result = SoloResponse(other)

\* both calls have polled, in turns, and returned: one confirmed the id found
\* in the payer's history, the other gave up after CONFIRMATION_RETRIES lookups
C25_Witness ==
    /\ Returned /\ result.success
    /\ Truthy(payer) /\ HistoryCount = 1
    /\ result.transaction = Str(TX_HASH)
    /\ other.pc = "returned"
    /\ other.result.errorReason = "hl_tx_unconfirmed"
    /\ other.paymentPayload # paymentPayload
    /\ Len(SelectSeq(other.requests, IsDetailLookup)) = CONFIRMATION_RETRIES

HyperliquidPositions ==
    {"tokenDetails", "verified", "settle", "submitExchange", "userDetails", "txDetails",
     "returned", "threw"}

RouterPositions == {"facilitatorVerify", "facilitatorSettle"}

IsCanonicalDecimal(text) ==
    LET parts == Split(text, ".")
    IN  /\ Len(parts) \in {1, 2}
        /\ parts[1] # <<>> /\ AllDigits(parts[1])
        /\ Len(parts[1]) > 1 => parts[1][1] # "0"
        /\ Len(parts) = 2 =>
                /\ parts[2] # <<>> /\ AllDigits(parts[2])
                /\ parts[2][Len(parts[2])] # "0"

\* text is the exact decimal representation of atomic / 10^d
IsExactDecimalOf(text, atomic, d) ==
    /\ IsCanonicalDecimal(text)
    /\ ToAtomicUnits(NumberOfString(text), d) = NumberOfString(atomic)

\* the decimals of the requirements: extra.decimals, or else what the
\* token-info lookup reports for the token of the asset
DecimalsOf(req) ==
    IF TypeOf(req.decimals) = "number" THEN req.decimals.n
    ELSE TokenWeiDecimals(extractHyperliquidTokenId(req.asset).s)

\* no request of the call has failed
NoLookupFailed == \A i \in 1..Len(requests) : requests[i].kind # "throws"

\* C28: createPaymentPayload sets action.amount to the exact decimal
\* representation of maxAmountRequired / 10^decimals, decimals being
\* extra.decimals or else the decimals of the token-info lookup, with no
\* zeros at the end of the fraction and no fraction when the division is exact
C28_AmountIsExactDecimal ==
    (pc = "created" /\ NoLookupFailed) =>
        IsExactDecimalOf(paymentPayload.action.amount.s,
                         paymentRequirements.maxAmountRequired,
                         DecimalsOf(paymentRequirements))

MismatchReasons ==
    {"invalid_exact_hl_payload_recipient_mismatch", "invalid_exact_hl_payload_asset_mismatch"}

PassesSettleGuards ==
    /\ paymentPayload.scheme = SCHEME
    /\ paymentRequirements.scheme = SCHEME
    /\ paymentPayload.network = paymentRequirements.network
    /\ paymentRequirements.network \in Range(SupportedHLNetworks)
    /\ paymentPayload.actionKind = "record"

C30_ClientPayloadAccepted == pc = "verified" => result.isValid

\* the entry is to payTo and in the asset (ignoring case), of the payload's
\* amount, and at the payload's action time or nonce
EntryIsThePayment(tx) ==
    LET action == getTxAction(tx)
        time == Coalesce(toNumber(action.time), toNumber(tx.time))
    IN  /\ action.destination.t = "string"
        /\ ToLowerCase(action.destination.s) = ToLowerCase(paymentRequirements.payTo)
        /\ action.token.t = "string"
        /\ ToLowerCase(action.token.s) = ToLowerCase(paymentRequirements.asset)
        /\ NumberEq(coerceAmountToNumber(action.amount),
                    coerceAmountToNumber(paymentPayload.action.amount))
        /\ IsFiniteNumber(time)
        /\ \/ IsFiniteNumber(paymentPayload.action.time)
              /\ time.n = paymentPayload.action.time.n
           \/ IsFiniteNumber(paymentPayload.nonce) /\ time.n = paymentPayload.nonce.n

\* C31: when settle returns success and the payer is known, the transaction
\* id returned is the hash of an entry of the payer's history that is to
\* payTo, in the asset, of the payload's amount and at the payload's time or
\* nonce
C31_SuccessIsForMatchingEntry ==
    (Returned /\ result.success /\ Truthy(payer)) =>
        \E i \in 1..Len(HistoryTxs) :
            /\ HistoryTxs[i].hash = result.transaction
            /\ EntryIsThePayment(HistoryTxs[i])

\* success for the entry that names payTo in upper case and the amount as
\* "1.0", one millisecond after the action time, among other entries
C31_Witness ==
    /\ Returned /\ result.success /\ Truthy(payer)
    /\ result.transaction = Str(LATER_HASH)
    /\ Len(HistoryTxs) = 2


\* every detail lookup before the last failed with an error that does not say
\* "not found", and the last one returned the transaction
TransientThenConfirmed ==
    /\ DetailCount >= 2
    /\ LastRequest.to = "txDetails"
    /\ LastRequest.kind = "tx"
    /\ \A i \in RequestsTo("txDetails") \ {Len(requests)} :
           requests[i].kind = "throws" /\ ~SaysNotFound(requests[i].message)

\* C32: a detail lookup failing with an error other than "not found" does not
\* end the call while attempts are left of the CONFIRMATION_RETRIES, and when
\* a later attempt returns the transaction settle answers success with the
\* resolved id, as if no attempt had failed
C32_TransientFailureRecovered ==
    /\ (AllDetailsFailOtherwise /\ DetailCount \in 1..(CONFIRMATION_RETRIES - 1))
       => pc = "txDetails"
    /\ (Returned /\ TransientThenConfirmed)
       => /\ result = successResponse(paymentRequirements, txHash, payer)
          /\ FoundInHistory => result.transaction \in MatchingIds
          /\ ~FoundInHistory => result.transaction = AckId

\* two failed attempts, then the third returns the transaction
C32_Witness ==
    /\ Returned /\ result.success
    /\ TransientThenConfirmed
    /\ DetailCount = CONFIRMATION_RETRIES


\* verify has answered, the checks before the amount passed, and decimals were
\* not resolved: none given, and either no token id to look up or the lookup
\* failed
DecimalsUnresolved ==
    /\ pc = "verified"
    /\ verifyEarlyReason(paymentPayload, paymentRequirements) = ""
    /\ TypeOf(paymentRequirements.decimals) # "number"
    /\ \/ requests = <<>> /\ IsNullish(lookupTokenId(paymentRequirements))
       \/ requests # <<>> /\ requests[Len(requests)].kind = "throws"

RawAmountSuffices ==
    NumberGE(NumberOfString(paymentPayload.action.amount.s),
             NumberOfString(paymentRequirements.maxAmountRequired))

\* C33: when decimals cannot be resolved verify does not reject for that
\* reason: it answers amount_mismatch exactly when the payload amount read as
\* a number is less than maxAmountRequired read as a number
C33_RawComparisonWhenDecimalsUnknown ==
    DecimalsUnresolved =>
        /\ decimals = Undefined
        /\ RawAmountSuffices => result \in {Valid(verifyExtractPayer(paymentPayload)),
                                             Invalid("payment_expired")}
        /\ ~RawAmountSuffices => result = Invalid("invalid_exact_hl_payload_amount_mismatch")

\* the lookup failed and the amount "1234" met the 1234 required
C33_Witness ==
    /\ DecimalsUnresolved
    /\ requests # <<>>
    /\ result.isValid
    /\ paymentPayload.action.amount = Str(<<"1","2","3","4">>)


\* the account-history query of this call threw
HistoryQueryThrew ==
    \E i \in RequestsTo("userDetails") : requests[i].kind = "throws"

\* C34: when the account-history query throws (the submission was accepted
\* and the payer is known, or no query would have been made) settle returns
\* at once with success false and hl_tx_not_found, without a detail lookup
C34_HistoryFaultIsNotFound ==
    HistoryQueryThrew =>
        /\ Truthy(payer)
        /\ ExchangeOk(requests[1])
        /\ Len(requests) = 2
        /\ Returned
        /\ ~result.success
        /\ result.errorReason = "hl_tx_not_found"
        /\ result.payer = payer
        /\ DetailCount = 0

\* the acknowledgment carried a well-formed id, and still the call failed
C34_Witness ==
    /\ HistoryQueryThrew
    /\ Returned
    /\ IsTransactionId(AckId)
    /\ result.errorReason = "hl_tx_not_found"


ClockValues == NowStart..(NowStart + MaxTicks)

\* C35: expiry is monotone in time: a freshness check that fails at one clock
\* value fails at every later one, and a payload verify has reported as
\* payment_expired is not accepted by any later call with the same payload
\* and requirements
C35_ExpiryIsMonotone ==
    /\ previous.result # NoResult => previous.now <= now
    /\ paymentPayload.actionKind = "record" =>
           \A c1 \in ClockValues : \A c2 \in ClockValues :
               (c1 <= c2 /\ ~withinTtl(paymentPayload.action.time,
                                       paymentRequirements.maxTimeoutSeconds, c1))
               => ~withinTtl(paymentPayload.action.time,
                             paymentRequirements.maxTimeoutSeconds, c2)
    /\ (pc = "verified" /\ previous.result = Invalid("payment_expired"))
       => ~result.isValid

\* expired at one clock value, and expired again when asked a millisecond
\* later although the action time is a number
C35_Witness ==
    /\ pc = "verified"
    /\ previous.result = Invalid("payment_expired")
    /\ previous.now < now
    /\ IsFiniteNumber(paymentPayload.action.time)
    /\ result = Invalid("payment_expired")


\* C36: for every non-negative integer atomic amount a and integer decimals
\* d >= 0, decimalToAtomic(formatDecimalAmount(a, d), d) is a, and verify
\* accepts the amount against maxAmountRequired = a
C36_FormatThenParseIsIdentity ==
    pc \in {"formatted", "verified"} =>
        LET a == paymentRequirements.maxAmountRequired
            d == paymentRequirements.decimals.n
            formatted == paymentPayload.action.amount.s
        IN  /\ ~decimalToAtomicThrows(formatted)
            /\ decimalToAtomic(formatted, d) = NumberOfInt(IntOfDigits(a))
            /\ pc = "verified" => result = Valid(Str(PAYER_ADDRESS))

\* 105 atomic units of a token of 2 decimals: "1.05" and back
C36_Witness ==
    /\ pc = "verified"
    /\ paymentRequirements.maxAmountRequired = <<"1","0","5">>
    /\ paymentRequirements.decimals = Num(2)
    /\ paymentPayload.action.amount = Str(<<"1",".","0","5">>)
    /\ result.isValid


EarlyReasons ==
    {"invalid_exact_hl_network", "invalid_exact_hl_payload",
     "invalid_exact_hl_payload_recipient_mismatch",
     "invalid_exact_hl_payload_asset_mismatch"}

\* C37: verify asks for the token info only after the network, shape,
\* recipient and asset checks have passed, and at most once in a call; a call
\* answered with one of the four early reasons has made no request
C37_LookupAfterEarlyChecks ==
    /\ Len(requests) <= 1
    /\ (pc = "tokenDetails" \/ requests # <<>>)
       => /\ ~networkGuardFails(paymentPayload, paymentRequirements)
          /\ ~ShapeViolated
          /\ ~RecipientViolated
          /\ ~AssetViolated
    /\ (pc = "verified" /\ result.invalidReason \in EarlyReasons) => requests = <<>>
    /\ pc = "tokenDetails" => requests = <<>>

\* requirements without extra.decimals: one lookup once the checks passed
C37_Witness ==
    /\ pc = "verified"
    /\ paymentRequirements.decimals = Undefined
    /\ requests = <<Request("tokenDetails", "json", <<>>)>>
    /\ result.isValid


FetchKeys == {fetchKey(c) : c \in FetchInputs}

\* the positions in requests of an event about key
FetchEvents(to, kind, key) ==
    {j \in 1..Len(requests) : requests[j] = Request(to, kind, key)}

\* C38: under concurrent calls of fetchHyperliquidTokenInfo for one key at
\* most one lookup of the key is under way and the entry of the key is
\* written at most once
C38_SingleFlightPerKey ==
    \A key \in FetchKeys :
        /\ Cardinality({i \in 1..2 : other[i].pc = "tokenDetails"
                                      /\ fetchKey(other[i]) = key}) <= 1
        /\ Cardinality(FetchEvents("cache", "set", key)) <= 1

LookupFailed(c) == c.pc = "threw" /\ c.error = "tokenDetails"

\* C39: a lookup that fails leaves the cache as it was and is raised to the
\* caller without an info; a key is in the cache only after a lookup of it
\* was answered; a call for a key that is not in the cache sends a lookup
C39_FailedLookupStoresNothing ==
    /\ [](\A i \in 1..2 : LookupFailed(other[i]) => other[i].info = NoInfo)
    /\ [](\A key \in FetchKeys :
            cacheHas(key) => FetchEvents("tokenDetails", "json", key) # {})
    /\ [][\A i \in 1..2 :
            /\ (other[i].pc = "tokenDetails" /\ LookupFailed(other'[i])) => cache' = cache
            /\ (/\ other[i].pc = "called" /\ other'[i].pc # "called"
                /\ ~assertHyperliquidNetworkThrows(other[i].network)
                /\ ~cacheHas(fetchKey(other[i])))
               => /\ other'[i].pc = "tokenDetails"
                  /\ requests' = Append(requests,
                                        Request("tokenDetails", "sent", fetchKey(other[i])))]_vars

\* the lookup of the first call failed, the call that came next sent one for
\* the same key, and the cache is empty
C39_Witness ==
    /\ LookupFailed(other[1])
    /\ other[2].pc = "tokenDetails"
    /\ fetchKey(other[1]) = fetchKey(other[2])
    /\ requests = <<Request("tokenDetails", "sent", fetchKey(other[1])),
                    Request("tokenDetails", "throws", fetchKey(other[1])),
                    Request("tokenDetails", "sent", fetchKey(other[1]))>>
    /\ cache = EmptyCache


HyperliquidFamily == {"hyperliquid", "hyperliquid-testnet"}

ExchangeOf(network) ==
    CASE network = "hyperliquid" -> "https://api.hyperliquid.xyz/exchange"
      [] network = "hyperliquid-testnet" -> "https://api.hyperliquid-testnet.xyz/exchange"
      [] OTHER -> "none"

\* C40: each shared helper throws "Unsupported Hyperliquid network" for a
\* network outside the family and returns for a member, never reporting a
\* missing configuration; getExchangeBaseUrl returns the exchange of the
\* network, and settle posts only to the exchange of requirements.network
C40_HelpersKnowTheFamily ==
    LET network == paymentRequirements.network
        member == network \in HyperliquidFamily
    IN  /\ result.kind = "helper" =>
              /\ result.outcome.throws <=> ~member
              /\ result.outcome.throws
                    => result.outcome.message = "Unsupported Hyperliquid network"
              /\ (member /\ result.helper = "getExchangeBaseUrl")
                    => result.outcome.value = ExchangeOf(network)
              /\ (member /\ result.helper = "createInfoClient")
                    => (result.outcome.value.isTestnet <=> network = "hyperliquid-testnet")
        /\ \A i \in 1..2 :
              other[i].pc # "called" =>
                  (other[i].error = "Unsupported Hyperliquid network" <=> ~member)
        /\ RequestsTo("exchange") # {} =>
              /\ member
              /\ paymentPayload.network = network
              /\ ~settleEndpoint(paymentRequirements).throws
              /\ settleEndpoint(paymentRequirements).value = ExchangeOf(network)

\* getExchangeBaseUrl answered for the testnet, and a payment on the testnet
\* was posted to the exchange of the testnet
C40_Witness ==
    /\ RequestsTo("exchange") # {}
    /\ paymentRequirements.network = "hyperliquid-testnet"
    /\ result.kind = "helper"
    /\ result.helper = "getExchangeBaseUrl"
    /\ ~result.outcome.throws
    /\ settleEndpoint(paymentRequirements).value
            = "https://api.hyperliquid-testnet.xyz/exchange"

==============================================================================
